---- MODULE Spec2Model ----
(***************************************************************************)
(* Workspace materialisation of worktree-io/runner.                        *)
(*                                                                         *)
(* The model follows Workspace::open_or_create (src/workspace.rs) and the  *)
(* git wrappers it calls (src/git/clone.rs, src/git/branch.rs,             *)
(* src/git/mod.rs) one external command at a time.  The disk is two maps   *)
(* keyed by the derived paths: the bare mirrors and the worktree           *)
(* directories.  Every `git` invocation is an environment step whose       *)
(* outcome (could not be spawned, non-zero exit, success) is chosen        *)
(* nondeterministically among the outcomes the state of the mirror allows. *)
(***************************************************************************)
EXTENDS Integers, Sequences, FiniteSets, TLC

VARIABLES
    mirror,     \* bare path -> state of the bare repository on disk
    worktree,   \* worktree path -> state of the worktree directory on disk
    pc,         \* process -> position inside open_or_create
    call,       \* process -> locals and recorded history of the running call
    prev,       \* the call that returned last (issue, result, what it saw)
    input,      \* the text handed to IssueRef::parse, as a sequence of tokens
    parsed,     \* what IssueRef::parse returned for it
    with_options, \* what IssueRef::parse_with_options returned for it
    issue_pair, \* two identities handed to the path deriver
    derived,    \* what the path deriver returned for each of them
    cmd,        \* inputs, configuration and locals of one cmd_open run
    cmd_pc,     \* position inside cmd_open
    events      \* what the run has executed so far, in order

vars ==
    <<mirror, worktree, pc, call, prev, input, parsed, with_options,
      issue_pair, derived, cmd, cmd_pc, events>>

lifecycle_vars == <<mirror, worktree, pc, call, prev>>

parser_vars == <<input, parsed, with_options>>

path_vars == <<issue_pair, derived>>

open_vars == <<cmd, cmd_pc, events>>

-----------------------------------------------------------------------------
(* Bounds *)

MaxIssue == 1

Procs == {"p1", "p2"}

None == "<none>"

-----------------------------------------------------------------------------
(* Identities and the path deriver (src/issue/mod.rs) *)

Uuid1 == "9cad7a4b-9426-4788-9dbc-e784df999053"

GitHub(o, r, n) == [variant |-> "GitHub", owner |-> o, repo |-> r, number |-> n, id |-> ""]

Linear(o, r, u) == [variant |-> "Linear", owner |-> o, repo |-> r, number |-> 0, id |-> u]

Ids ==
    {GitHub("acme", "widgets", n) : n \in 1..MaxIssue}
        \cup {Linear("acme", "widgets", Uuid1)}

workspace_dir_name_m(i) ==
    IF i.variant = "GitHub" THEN "issue-" \o ToString(i.number)
    ELSE "issue-" \o i.id

workspace_dir_name(i) ==
    IF i.variant = "GitHub" THEN "issue-" \o ToString(i.number)
    ELSE "linear-" \o i.id

branch_name(i) == workspace_dir_name(i)

clone_url(i) == "https://github.com/" \o i.owner \o "/" \o i.repo \o ".git"

join(path, component) == path \o "/" \o component

home_dir == "~"

bare_clone_path(i) ==
    join(join(join(join(home_dir, "worktrees"), "github"), i.owner), i.repo)

temp_path(i) == join(bare_clone_path(i), workspace_dir_name(i))

\* Two identities IssueRef::parse returns for acme/api#1 and
\* acme/api/issue-1#2: the bare path of the second is the worktree path of
\* the first.
NestedIds == {GitHub("acme", "api", 1), GitHub("acme", "api/issue-1", 2)}

AllIds == Ids \cup NestedIds

BarePaths == {bare_clone_path(i) : i \in Ids}

WorktreePaths == {temp_path(i) : i \in Ids}

-----------------------------------------------------------------------------
(* The disk *)

AbsentMirror == [state |-> "absent", refs |-> {}, head |-> None]

ClonedMirror == [state |-> "cloned", refs |-> {}, head |-> None]

\* A plain directory where a mirror would be: create_dir_all made it as the
\* parent of another bare path.
DirMirror == [state |-> "dir", refs |-> {}, head |-> None]

\* Path::exists on a bare path / a worktree path.
MirrorExists(m) == m.state # "absent"

WorktreeExists(w) == w # "absent"

\* path is dir followed by one workspace_dir_name.
inside(path, dir) == \E i \in AllIds : path = join(dir, workspace_dir_name(i))

\* Mutant: no path is ever found to exist.
path_exists_m(path) == FALSE

\* Path::exists on a worktree path: a worktree or a bare clone is there.
path_exists(path) ==
    \/ WorktreeExists(worktree[path])
    \/ path \in DOMAIN mirror /\ MirrorExists(mirror[path])

\* The bare path of the repository `git -C path` works on: path itself, or
\* the mirror that owns the worktree checked out at path.
git_dir(path) ==
    IF /\ path \in DOMAIN worktree
       /\ WorktreeExists(worktree[path])
       /\ ~MirrorExists(mirror[path])
    THEN CHOOSE b \in DOMAIN mirror : inside(path, b)
    ELSE path

\* create_dir_all(dest.parent()): a parent that is itself a bare path and
\* was missing is now a plain directory.
with_parent(disk, dest) ==
    [b \in DOMAIN disk |->
        IF inside(dest, b) /\ disk[b].state = "absent" THEN DirMirror ELSE disk[b]]

\* The refspec bare_clone configures (src/git/clone.rs:23).
fetch_refspec == "+refs/heads/*:refs/remotes/origin/*"

RefspecOf(m) == IF m.state = "configured" THEN fetch_refspec ELSE None

\* What a successful `git fetch origin` can leave under refs/remotes/origin
\* of a mirror whose refspec is configured: the remote-tracking branches and
\* the symbolic ref origin/HEAD (None when the fetch did not set it).
FetchSnapshots ==
    { [refs |-> {},                    head |-> None],
      [refs |-> {"develop"},           head |-> None],
      [refs |-> {"master", "develop"}, head |-> None],
      [refs |-> {"master", "develop"}, head |-> "develop"],
      [refs |-> {"main", "issue-1"},   head |-> None],
      [refs |-> {"trunk"},             head |-> "trunk"] }

-----------------------------------------------------------------------------
(* Outcome of one Command: could it be spawned, did it exit with success,  *)
(* what did it print.                                                       *)

SpawnErr == [spawned |-> FALSE, success |-> FALSE, stdout |-> <<>>]

ExitFail == [spawned |-> TRUE, success |-> FALSE, stdout |-> <<>>]

Success(out) == [spawned |-> TRUE, success |-> TRUE, stdout |-> out]

-----------------------------------------------------------------------------
(* Results *)

Ok(path, created) == [ok |-> TRUE, created |-> created, path |-> path, err |-> ""]

Err(msg) == [ok |-> FALSE, created |-> FALSE, path |-> "", err |-> msg]

NoResult == [ok |-> FALSE, created |-> FALSE, path |-> "", err |-> "<running>"]

\* One entry of a call's history: the operation, the branch it returned or
\* was given, the flag it returned or was given, the git arguments it built.
Op(name, branch, flag, args) ==
    [op |-> name, branch |-> branch, flag |-> flag, args |-> args]

NoIssue == GitHub("", "", 0)

IdleCall ==
    [issue |-> NoIssue, wt_existed |-> FALSE, bare_existed |-> FALSE,
     base_branch |-> None, branch_exists |-> FALSE, cand |-> 1,
     ops |-> <<>>, probes |-> <<>>, exists_out |-> SpawnErr,
     cw_outcome |-> None, result |-> NoResult]

NoPrev == [valid |-> FALSE, issue |-> NoIssue, wt_existed |-> FALSE, result |-> NoResult]

\* Result<IssueRef> and Result<(IssueRef, DeepLinkOptions)>; editor is the
\* Option<String> of DeepLinkOptions.
ParseOk(issue, editor) == [ok |-> TRUE, issue |-> issue, editor |-> editor, err |-> ""]

ParseErr(msg) == [ok |-> FALSE, issue |-> NoIssue, editor |-> None, err |-> msg]

NotParsed == ParseErr("<not called>")

\* Config as Config::load returns it: the two hooks of [hooks], the command
\* of [editor] and the flag of [open].  A hook that is not set is None; the
\* command, a text, is a sequence of at most one element.
NoConfig == [pre_open |-> None, post_open |-> None, command |-> <<>>, editor |-> FALSE]

\* Result<()> of cmd_open.
CmdOk == [ok |-> TRUE, err |-> ""]

CmdErr(msg) == [ok |-> FALSE, err |-> msg]

CmdRunning == CmdErr("<running>")

\* The arguments and locals of cmd_open before it has run.  target_os is the
\* system the program was built for, cand the position in the list of
\* open_hook_in_auto_terminal, cmd_str the command line open_in_editor built;
\* editor_cmd and cmd_str are sequences of at most one text.
IdleCmd ==
    [force_editor |-> FALSE, print_path |-> FALSE, target_os |-> "macos",
     created |-> FALSE, path |-> None, config |-> NoConfig, editor_cmd |-> <<>>,
     cand |-> 1, cmd_str |-> <<>>, result |-> CmdRunning]

NoIssuePair == <<NoIssue, NoIssue>>

NotDerived == <<>>

\* No open_or_create call is running and the disk is empty.
LifecycleIdle ==
    /\ mirror = [b \in BarePaths |-> AbsentMirror]
    /\ worktree = [w \in WorktreePaths |-> "absent"]
    /\ pc = [p \in Procs |-> "idle"]
    /\ call = [p \in Procs |-> IdleCall]
    /\ prev = NoPrev

ParserIdle ==
    /\ input = <<>>
    /\ parsed = NotParsed
    /\ with_options = NotParsed

PathIdle ==
    /\ issue_pair = NoIssuePair
    /\ derived = NotDerived

OpenIdle ==
    /\ cmd = IdleCmd
    /\ cmd_pc = "idle"
    /\ events = <<>>

Init ==
    /\ LifecycleIdle
    /\ ParserIdle
    /\ PathIdle
    /\ OpenIdle

-----------------------------------------------------------------------------
(* Text helpers.  Command output is a sequence of tokens; the tokens " "    *)
(* and "\n" are whitespace.                                                 *)

IsSpace(t) == t \in {" ", "\n", "\t"}

RECURSIVE trim_start(_)
trim_start(s) ==
    IF s # <<>> /\ IsSpace(Head(s)) THEN trim_start(Tail(s)) ELSE s

RECURSIVE trim_end(_)
trim_end(s) ==
    IF s # <<>> /\ IsSpace(s[Len(s)]) THEN trim_end(SubSeq(s, 1, Len(s) - 1)) ELSE s

trim(s) == trim_end(trim_start(s))

\* str::strip_prefix: <<TRUE, rest>> when s starts with the prefix.
strip_prefix(s, prefix) ==
    IF s # <<>> /\ Head(s) = prefix THEN <<TRUE, Tail(s)>> ELSE <<FALSE, <<>>>>

RECURSIVE to_string(_)
to_string(s) == IF s = <<>> THEN "" ELSE Head(s) \o to_string(Tail(s))

-----------------------------------------------------------------------------
(* Workspace::open_or_create, src/workspace.rs:16-65 *)

Returns(p, r) ==
    /\ pc' = [pc EXCEPT ![p] = "done"]
    /\ call' = [call EXCEPT ![p].result = r]

\* `?` on a failed step: the error is returned at once.
Fails(p, msg) == Returns(p, Err(msg))

\* Mutant: the fast path reports a creation.
ReusedResult_m(path) == Ok(path, TRUE)

\* The value returned on the fast path (src/workspace.rs:22-26).
ReusedResult(path) == Ok(path, FALSE)

\* Mutant: a creation is reported as a reuse.
CreatedResult_m(path) == Ok(path, FALSE)

\* The value returned after create_worktree (src/workspace.rs:60-64).
CreatedResult(path) == Ok(path, TRUE)

\* Lines 16-27: derive the paths, take the fast path when the worktree
\* path exists.
OpenOrCreate(p, i) ==
    /\ pc[p] = "idle"
    /\ LET worktree_path == temp_path(i)
           bare_path == bare_clone_path(i)
           c == [IdleCall EXCEPT !.issue = i,
                                 !.wt_existed = path_exists(worktree_path),
                                 !.bare_existed = MirrorExists(mirror[git_dir(bare_path)])]
       IN  IF path_exists(worktree_path)
           THEN /\ pc' = [pc EXCEPT ![p] = "done"]
                /\ call' = [call EXCEPT ![p] =
                               [c EXCEPT !.result = ReusedResult(worktree_path)]]
           ELSE /\ pc' = [pc EXCEPT ![p] = "ensure"]
                /\ call' = [call EXCEPT ![p] = c]
    /\ UNCHANGED <<mirror, worktree, prev>>

\* One invocation at a time (spec section 5: single-process usage).
SeqCall(p, i) ==
    /\ \A q \in Procs : pc[q] = "idle"
    /\ OpenOrCreate(p, i)
    /\ UNCHANGED <<parser_vars, path_vars, open_vars>>

\* Mutant: the test of line 30 inverted.
NeedsClone_m(m) == MirrorExists(m)

\* The test of line 30.
NeedsClone(m) == ~MirrorExists(m)

\* Mutant: an existing mirror is used as it is, without git_fetch.
EnsureBare_m(p) ==
    /\ pc[p] = "ensure"
    /\ LET bare_path == bare_clone_path(call[p].issue)
       IN  IF NeedsClone(mirror[git_dir(bare_path)])
           THEN /\ pc' = [pc EXCEPT ![p] = "clone_clone"]
                /\ call' = [call EXCEPT ![p].ops = Append(@, Op("bare_clone", "", FALSE, <<>>))]
           ELSE /\ pc' = [pc EXCEPT ![p] = "tier1"]
                /\ UNCHANGED call
    /\ UNCHANGED <<mirror, worktree, prev>>
    /\ UNCHANGED <<parser_vars, path_vars, open_vars>>

\* Lines 29-41: bare_clone when the bare path is missing, git_fetch otherwise.
EnsureBare(p) ==
    /\ pc[p] = "ensure"
    /\ LET bare_path == bare_clone_path(call[p].issue)
       IN  IF NeedsClone(mirror[git_dir(bare_path)])
           THEN /\ pc' = [pc EXCEPT ![p] = "clone_clone"]
                /\ call' = [call EXCEPT ![p].ops = Append(@, Op("bare_clone", "", FALSE, <<>>))]
           ELSE /\ pc' = [pc EXCEPT ![p] = "fetch"]
                /\ call' = [call EXCEPT ![p].ops = Append(@, Op("git_fetch", "", FALSE, <<>>))]
    /\ UNCHANGED <<mirror, worktree, prev>>
    /\ UNCHANGED <<parser_vars, path_vars, open_vars>>

-----------------------------------------------------------------------------
(* bare_clone and git_fetch, src/git/clone.rs *)

IsRepo(m) == m.state \in {"cloned", "configured"}

\* Lines 6-19: create_dir_all(parent), then `git clone --bare url dest`.
BareCloneClone(p) ==
    /\ pc[p] = "clone_clone"
    /\ LET dest == bare_clone_path(call[p].issue)
       IN  \E outcome \in {"mkdir_err", "spawn_err", "exit_fail", "ok"} :
             CASE outcome = "mkdir_err" ->
                    /\ Fails(p, "Failed to create directory")
                    /\ UNCHANGED mirror
               [] outcome = "spawn_err" ->
                    /\ Fails(p, "Failed to run git clone --bare")
                    /\ mirror' = with_parent(mirror, dest)
               [] outcome = "exit_fail" ->
                    /\ Fails(p, "git clone --bare failed")
                    /\ mirror' = with_parent(mirror, dest)
               [] outcome = "ok" ->
                    \* git refuses to clone into an existing repository
                    /\ mirror[dest].state = "absent"
                    /\ mirror' = [with_parent(mirror, dest) EXCEPT ![dest] = ClonedMirror]
                    /\ pc' = [pc EXCEPT ![p] = "clone_config"]
                    /\ UNCHANGED call
    /\ UNCHANGED <<worktree, prev>>
    /\ UNCHANGED <<parser_vars, path_vars, open_vars>>

\* Lines 21-33: `git -C dest config remote.origin.fetch <refspec>`.
BareCloneConfig(p) ==
    /\ pc[p] = "clone_config"
    /\ LET dest == git_dir(bare_clone_path(call[p].issue))
       IN  \E outcome \in {"spawn_err", "exit_fail", "ok"} :
             CASE outcome = "spawn_err" ->
                    /\ Fails(p, "Failed to configure remote.origin.fetch")
                    /\ UNCHANGED mirror
               [] outcome = "exit_fail" ->
                    /\ Fails(p, "Failed to set remote.origin.fetch")
                    /\ UNCHANGED mirror
               [] outcome = "ok" ->
                    /\ IsRepo(mirror[dest])
                    /\ mirror' = [mirror EXCEPT ![dest].state = "configured"]
                    /\ pc' = [pc EXCEPT ![p] = "clone_fetch"]
                    /\ UNCHANGED call
    /\ UNCHANGED <<worktree, prev>>
    /\ UNCHANGED <<parser_vars, path_vars, open_vars>>

\* `git -C bare fetch origin`: with the refspec configured it rewrites the
\* remote-tracking refs; without it nothing under refs/remotes/origin changes.
FetchOrigin(p, bare, spawn_msg, fail_msg) ==
    \E outcome \in {"spawn_err", "exit_fail", "ok"} :
        CASE outcome = "spawn_err" ->
               /\ Fails(p, spawn_msg)
               /\ UNCHANGED mirror
          [] outcome = "exit_fail" ->
               /\ Fails(p, fail_msg)
               /\ UNCHANGED mirror
          [] outcome = "ok" ->
               /\ IsRepo(mirror[bare])
               /\ IF mirror[bare].state = "configured"
                  THEN \E s \in FetchSnapshots :
                         mirror' = [mirror EXCEPT ![bare].refs = s.refs,
                                                  ![bare].head = s.head]
                  ELSE UNCHANGED mirror
               /\ pc' = [pc EXCEPT ![p] = "tier1"]
               /\ UNCHANGED call

\* Lines 35-47: the fetch that ends bare_clone.
BareCloneFetch(p) ==
    /\ pc[p] = "clone_fetch"
    /\ FetchOrigin(p, git_dir(bare_clone_path(call[p].issue)),
                   "Failed to run git fetch origin",
                   "git fetch origin failed after bare clone")
    /\ UNCHANGED <<worktree, prev>>
    /\ UNCHANGED <<parser_vars, path_vars, open_vars>>

\* Lines 50-62: git_fetch.
GitFetch(p) ==
    /\ pc[p] = "fetch"
    /\ FetchOrigin(p, git_dir(bare_clone_path(call[p].issue)),
                   "Failed to run git fetch",
                   "git fetch origin failed")
    /\ UNCHANGED <<worktree, prev>>
    /\ UNCHANGED <<parser_vars, path_vars, open_vars>>

-----------------------------------------------------------------------------
(* The commands of detect_default_branch and what they can do. *)

\* `git symbolic-ref refs/remotes/origin/HEAD` on mirror m.
SymbolicRefOutcomes(m) ==
    {SpawnErr} \cup
        IF m.head # None
        THEN {Success(<<"refs/remotes/origin/", m.head, "\n">>)}
        ELSE {ExitFail}

\* Texts `git remote show origin` can print.
ShowTrunk ==
    <<"* remote origin", "\n",
      " ", " ", "Fetch URL: ", "https://github.com/acme/widgets.git", "\n",
      " ", " ", "HEAD branch: ", "trunk", "\n",
      " ", " ", "Remote branch:", "\n">>

ShowUnknown ==
    <<"* remote origin", "\n",
      " ", " ", "HEAD branch: ", "(unknown)", "\n">>

ShowAmbiguous ==
    <<"* remote origin", "\n",
      " ", " ", "HEAD branch (remote HEAD is ambiguous, may be one of the following):", "\n",
      " ", " ", " ", " ", "main", "\n",
      " ", " ", " ", " ", "master", "\n">>

RemoteShowTexts == {ShowTrunk, ShowUnknown, ShowAmbiguous}

\* `git remote show origin` asks the remote: any outcome, whatever the refs.
RemoteShowOutcomes(m) ==
    {SpawnErr, ExitFail} \cup
        IF IsRepo(m) THEN {Success(t) : t \in RemoteShowTexts} ELSE {}

\* `git rev-parse --verify refs/remotes/origin/<branch>` on mirror m.
RevParseOutcomes(m, branch) ==
    {SpawnErr} \cup (IF branch \in m.refs THEN {Success(<<>>)} ELSE {ExitFail})

-----------------------------------------------------------------------------
(* detect_default_branch, src/git/branch.rs:5-54 *)

NoAnswer == <<FALSE, "">>

Answer(branch) == <<TRUE, branch>>

\* Mutant: the symbolic-ref tier never answers.
Tier1Answer_m(out) == NoAnswer

\* Lines 13-19: the answer of the symbolic-ref tier.
Tier1Answer(out) ==
    IF out.success
    THEN LET r == strip_prefix(trim(out.stdout), "refs/remotes/origin/")
         IN  IF r[1] THEN Answer(to_string(r[2])) ELSE NoAnswer
    ELSE NoAnswer

\* str::lines: split at "\n"; a final line needs no terminator.
RECURSIVE lines(_)
lines(s) ==
    IF s = <<>> THEN <<>>
    ELSE LET nl == {k \in 1..Len(s) : s[k] = "\n"}
             k == IF nl = {} THEN Len(s) + 1
                  ELSE CHOOSE x \in nl : \A y \in nl : x <= y
         IN  <<SubSeq(s, 1, k - 1)>> \o lines(SubSeq(s, k + 1, Len(s)))

\* Mutant: the line is not trimmed before the prefix is stripped.
RECURSIVE first_head_branch_m(_)
first_head_branch_m(ls) ==
    IF ls = <<>> THEN NoAnswer
    ELSE LET r == strip_prefix(Head(ls), "HEAD branch: ")
         IN  IF r[1] THEN Answer(to_string(r[2])) ELSE first_head_branch_m(Tail(ls))

\* Lines 31-36: the first line that, trimmed, starts with "HEAD branch: ".
RECURSIVE first_head_branch(_)
first_head_branch(ls) ==
    IF ls = <<>> THEN NoAnswer
    ELSE LET r == strip_prefix(trim(Head(ls)), "HEAD branch: ")
         IN  IF r[1] THEN Answer(to_string(r[2])) ELSE first_head_branch(Tail(ls))

\* Lines 29-37: the answer of the remote-show tier.
Tier2Answer(out) ==
    IF out.success THEN first_head_branch(lines(out.stdout)) ELSE NoAnswer

\* Mutant: the candidates in another order.
Candidates_m == <<"develop", "master", "main">>

\* Line 40: the candidates of the last tier, in probing order.
Candidates == <<"main", "master", "develop">>

\* One probe of detect_default_branch has run with outcome `out`: the error
\* of a command that could not be spawned is returned, an answer is returned
\* as the default branch, anything else moves on to `next`.
DetectStep(p, probe, out, spawn_msg, answer, next, next_cand) ==
    LET c == [call[p] EXCEPT !.probes = Append(@, [probe |-> probe, out |-> out])]
    IN  IF ~out.spawned
        THEN /\ pc' = [pc EXCEPT ![p] = "done"]
             /\ call' = [call EXCEPT ![p] = [c EXCEPT !.result = Err(spawn_msg)]]
        ELSE IF answer[1]
        THEN /\ pc' = [pc EXCEPT ![p] = "exists"]
             /\ call' = [call EXCEPT ![p] =
                   [c EXCEPT !.base_branch = answer[2],
                             !.ops = Append(@, Op("detect_default_branch", answer[2], FALSE, <<>>))]]
        ELSE IF next = "bail"
        THEN /\ pc' = [pc EXCEPT ![p] = "done"]
             /\ call' = [call EXCEPT ![p] =
                   [c EXCEPT !.result =
                       Err("Could not detect default branch for the repository")]]
        ELSE /\ pc' = [pc EXCEPT ![p] = next]
             /\ call' = [call EXCEPT ![p] = [c EXCEPT !.cand = next_cand]]

\* Lines 6-20.
SymbolicRef(p) ==
    /\ pc[p] = "tier1"
    /\ \E out \in SymbolicRefOutcomes(mirror[git_dir(bare_clone_path(call[p].issue))]) :
         DetectStep(p, "symbolic-ref", out, "Failed to run git symbolic-ref",
                    Tier1Answer(out), "tier2", 1)
    /\ UNCHANGED <<mirror, worktree, prev>>
    /\ UNCHANGED <<parser_vars, path_vars, open_vars>>

\* Lines 22-38.
RemoteShow(p) ==
    /\ pc[p] = "tier2"
    /\ \E out \in RemoteShowOutcomes(mirror[git_dir(bare_clone_path(call[p].issue))]) :
         DetectStep(p, "remote-show", out, "Failed to run git remote show origin",
                    Tier2Answer(out), "tier3", 1)
    /\ UNCHANGED <<mirror, worktree, prev>>
    /\ UNCHANGED <<parser_vars, path_vars, open_vars>>

\* Lines 40-53: one iteration of the candidate loop; bail after the last.
ProbeCandidate(p) ==
    /\ pc[p] = "tier3"
    /\ LET k == call[p].cand
           candidate == Candidates[k]
       IN  \E out \in RevParseOutcomes(mirror[git_dir(bare_clone_path(call[p].issue))], candidate) :
             DetectStep(p, candidate, out, "Failed to run git rev-parse",
                        IF out.success THEN Answer(candidate) ELSE NoAnswer,
                        IF k < Len(Candidates) THEN "tier3" ELSE "bail", k + 1)
    /\ UNCHANGED <<mirror, worktree, prev>>
    /\ UNCHANGED <<parser_vars, path_vars, open_vars>>

-----------------------------------------------------------------------------
(* branch_exists_remote, src/git/branch.rs:56-64 *)

\* Mutant: a probe that could not be run counts as "exists".
branch_exists_value_m(out) == IF out.spawned THEN out.success ELSE TRUE

\* .output().map(|o| o.status.success()).unwrap_or(false)
branch_exists_value(out) == IF out.spawned THEN out.success ELSE FALSE

\* src/workspace.rs:47-50.
BranchExistsRemote(p) ==
    /\ pc[p] = "exists"
    /\ LET branch == branch_name(call[p].issue)
       IN  \E out \in RevParseOutcomes(mirror[git_dir(bare_clone_path(call[p].issue))], branch) :
             call' = [call EXCEPT
                        ![p].branch_exists = branch_exists_value(out),
                        ![p].exists_out = out,
                        ![p].ops = Append(@, Op("branch_exists_remote", branch,
                                                branch_exists_value(out), <<>>))]
    /\ pc' = [pc EXCEPT ![p] = "create"]
    /\ UNCHANGED <<mirror, worktree, prev>>
    /\ UNCHANGED <<parser_vars, path_vars, open_vars>>

-----------------------------------------------------------------------------
(* create_worktree, src/git/mod.rs:11-38 *)

\* Lines 18-30: the arguments after `git -C bare worktree add`.
worktree_add_args(dest, branch, base_branch, branch_exists) ==
    IF branch_exists
    THEN <<dest, "--track", "origin/" \o branch>>
    ELSE <<dest, "-b", branch, "origin/" \o base_branch>>

\* The remote-tracking branch `git worktree add` checks out.
start_point(branch, base_branch, branch_exists) ==
    IF branch_exists THEN branch ELSE base_branch

\* Mutant: the base branch is taken to be "main" instead of the detected one.
CreateWorktreeOp_m(c) ==
    Op("create_worktree", "main", c.branch_exists,
       worktree_add_args(temp_path(c.issue), branch_name(c.issue),
                         "main", c.branch_exists))

\* src/workspace.rs:58: the call create_worktree(&bare_path, &worktree_path,
\* &branch, &base_branch, branch_exists) made from the locals c of the call.
CreateWorktreeOp(c) ==
    Op("create_worktree", c.base_branch, c.branch_exists,
       worktree_add_args(temp_path(c.issue), branch_name(c.issue),
                         c.base_branch, c.branch_exists))

\* `git worktree add` refuses --track when no new branch is asked for with -b
\* ("--[no-]track can only be used if a new branch is created", exit 128).
git_accepts(args) ==
    ~(\E k \in DOMAIN args : args[k] = "--track")
        \/ (\E k \in DOMAIN args : args[k] = "-b")

\* src/workspace.rs:52-64 with create_worktree.  `git worktree add` succeeds
\* only on a repository, with arguments it accepts, for a start point that
\* exists and a destination that does not.  A non-zero exit either leaves no
\* directory or, when git fails after the checkout (a failing post-checkout
\* hook), leaves the directory.
CreateWorktree(p) ==
    /\ pc[p] = "create"
    /\ LET i == call[p].issue
           bare == git_dir(bare_clone_path(i))
           dest == temp_path(i)
           cw == CreateWorktreeOp(call[p])
           c == [call[p] EXCEPT !.ops = Append(@, cw)]
           can_checkout ==
               /\ IsRepo(mirror[bare])
               /\ ~path_exists(dest)
               /\ git_accepts(cw.args)
               /\ start_point(branch_name(i), cw.branch, cw.flag) \in mirror[bare].refs
       IN  \E outcome \in {"spawn_err", "usage_err", "exit_fail", "exit_fail_dir", "ok"} :
             CASE outcome = "spawn_err" ->
                    /\ call' = [call EXCEPT ![p] =
                          [c EXCEPT !.result = Err("Failed to run git worktree add"),
                                    !.cw_outcome = outcome]]
                    /\ UNCHANGED worktree
               [] outcome = "usage_err" ->
                    /\ ~git_accepts(cw.args)
                    /\ call' = [call EXCEPT ![p] =
                          [c EXCEPT !.result = Err("git worktree add failed for branch"),
                                    !.cw_outcome = outcome]]
                    /\ UNCHANGED worktree
               [] outcome = "exit_fail" ->
                    /\ call' = [call EXCEPT ![p] =
                          [c EXCEPT !.result = Err("git worktree add failed for branch"),
                                    !.cw_outcome = outcome]]
                    /\ UNCHANGED worktree
               [] outcome = "exit_fail_dir" ->
                    /\ can_checkout
                    /\ call' = [call EXCEPT ![p] =
                          [c EXCEPT !.result = Err("git worktree add failed for branch"),
                                    !.cw_outcome = outcome]]
                    /\ worktree' = [worktree EXCEPT ![dest] = "partial"]
               [] outcome = "ok" ->
                    /\ can_checkout
                    /\ call' = [call EXCEPT ![p] =
                          [c EXCEPT !.result = CreatedResult(dest),
                                    !.cw_outcome = outcome]]
                    /\ worktree' = [worktree EXCEPT ![dest] =
                                       IF cw.flag THEN "tracking" ELSE "new-branch"]
    /\ pc' = [pc EXCEPT ![p] = "done"]
    /\ UNCHANGED <<mirror, prev>>
    /\ UNCHANGED <<parser_vars, path_vars, open_vars>>

\* The call returns to its caller.
Return(p) ==
    /\ pc[p] = "done"
    /\ prev' = [valid |-> TRUE, issue |-> call[p].issue,
                wt_existed |-> call[p].wt_existed, result |-> call[p].result]
    /\ pc' = [pc EXCEPT ![p] = "idle"]
    /\ call' = [call EXCEPT ![p] = IdleCall]
    /\ UNCHANGED <<mirror, worktree>>
    /\ UNCHANGED <<parser_vars, path_vars, open_vars>>

-----------------------------------------------------------------------------

Next ==
    \E p \in Procs :
        \/ \E i \in Ids : SeqCall(p, i)
        \/ EnsureBare(p)
        \/ BareCloneClone(p)
        \/ BareCloneConfig(p)
        \/ BareCloneFetch(p)
        \/ GitFetch(p)
        \/ SymbolicRef(p)
        \/ RemoteShow(p)
        \/ ProbeCandidate(p)
        \/ BranchExistsRemote(p)
        \/ CreateWorktree(p)
        \/ Return(p)

Spec == Init /\ [][Next]_vars

TypeOK ==
    /\ \A b \in BarePaths : mirror[b].state \in {"absent", "dir", "cloned", "configured"}
    /\ \A w \in WorktreePaths : worktree[w] \in {"absent", "partial", "tracking", "new-branch"}
    /\ \A p \in Procs : pc[p] \in
          {"idle", "ensure", "clone_clone", "clone_config", "clone_fetch", "fetch",
           "tier1", "tier2", "tier3", "exists", "create", "done"}

-----------------------------------------------------------------------------
(* Properties of open_or_create *)

Done(p) == pc[p] = "done"

OpNames(c) == [k \in DOMAIN c.ops |-> c.ops[k].op]

MirrorOps == {"bare_clone", "git_fetch"}

\* C1: when open_or_create is called twice in succession for an identity
\* whose worktree path did not exist and the first call succeeded, the first
\* call returned created = true and the second returns created = false with
\* the path of the first.
C1_SecondCallReuses ==
    \A p \in Procs :
        (/\ Done(p)
         /\ prev.valid
         /\ prev.issue = call[p].issue
         /\ ~prev.wt_existed
         /\ prev.result.ok)
        => /\ prev.result.created
           /\ call[p].result.ok
           /\ ~call[p].result.created
           /\ call[p].result.path = prev.result.path

C1_Witness ==
    \E p \in Procs :
        /\ Done(p)
        /\ prev.valid /\ prev.issue = call[p].issue
        /\ ~prev.wt_existed /\ prev.result.ok /\ prev.result.created
        /\ call[p].result.ok /\ ~call[p].result.created

\* C2: a call for an identity whose worktree path exists on disk returns
\* created = false at once, performs none of bare_clone, git_fetch,
\* detect_default_branch, branch_exists_remote, create_worktree, and leaves
\* every mirror and every worktree as it was.
C2_ReusedTouchesNothing ==
    [][\A p \in Procs :
          (/\ pc[p] = "idle"
           /\ pc'[p] # "idle"
           /\ worktree[temp_path(call'[p].issue)] # "absent")
          => /\ pc'[p] = "done"
             /\ call'[p].result.ok
             /\ ~call'[p].result.created
             /\ call'[p].result.path = temp_path(call'[p].issue)
             /\ call'[p].ops = <<>>
             /\ call'[p].probes = <<>>
             /\ mirror' = mirror
             /\ worktree' = worktree]_vars

C2_Witness ==
    \E p \in Procs :
        /\ Done(p)
        /\ call[p].wt_existed
        /\ call[p].result.ok /\ ~call[p].result.created
        /\ call[p].ops = <<>>

\* C3: a call whose worktree path does not exist performs exactly one of
\* bare_clone and git_fetch: bare_clone if and only if the bare path does not
\* exist when it is tested, git_fetch otherwise.
C3_CloneXorFetch ==
    /\ [](\A p \in Procs :
            pc[p] \notin {"idle", "ensure"} /\ ~call[p].wt_existed
            => Cardinality({k \in DOMAIN call[p].ops :
                               call[p].ops[k].op \in MirrorOps}) = 1)
    /\ [][\A p \in Procs :
            pc[p] = "ensure" /\ pc'[p] # "ensure"
            => LET m == mirror[bare_clone_path(call[p].issue)]
               IN  /\ m.state = "absent" =>
                         /\ pc'[p] = "clone_clone"
                         /\ OpNames(call'[p]) = <<"bare_clone">>
                   /\ m.state # "absent" =>
                         /\ pc'[p] = "fetch"
                         /\ OpNames(call'[p]) = <<"git_fetch">>]_vars

C3_Witness ==
    \E p \in Procs :
        /\ pc[p] = "fetch"
        /\ mirror[bare_clone_path(call[p].issue)].state # "absent"
        /\ OpNames(call[p]) = <<"git_fetch">>

\* C4: whenever bare_clone, git_fetch, detect_default_branch or
\* create_worktree fails, the call returns the error at once, runs no later
\* step, retries nothing, and no directory exists at the worktree path of
\* the identity afterwards.
C4_FailureLeavesNoWorktree ==
    \A p \in Procs :
        Done(p) /\ ~call[p].result.ok
        => /\ worktree[temp_path(call[p].issue)] = "absent"
           /\ Len(call[p].ops) <= 4
           /\ \A j, k \in DOMAIN call[p].ops :
                 call[p].ops[j].op = call[p].ops[k].op => j = k

\* C5: a call that returns created = true has performed, in this order and
\* once each, (bare_clone or git_fetch), detect_default_branch,
\* branch_exists_remote, create_worktree, and create_worktree was given the
\* branch detect_default_branch returned and the flag branch_exists_remote
\* returned.
C5_OrderAndArguments ==
    \A p \in Procs :
        Done(p) /\ call[p].result.ok /\ call[p].result.created
        => LET ops == call[p].ops
           IN  /\ Len(ops) = 4
               /\ ops[1].op \in MirrorOps
               /\ ops[2].op = "detect_default_branch"
               /\ ops[3].op = "branch_exists_remote"
               /\ ops[4].op = "create_worktree"
               /\ ops[4].branch = ops[2].branch
               /\ ops[4].flag = ops[3].flag

C5_Witness ==
    \E p \in Procs :
        /\ Done(p) /\ call[p].result.ok /\ call[p].result.created
        /\ Len(call[p].ops) = 4
        /\ call[p].ops[2].branch = "develop"
        /\ call[p].ops[4].branch = "develop"

\* C6: after any sequence of calls, every bare mirror that exists on disk
\* has remote.origin.fetch set to +refs/heads/*:refs/remotes/origin/*.
C6_MirrorsHaveRefspec ==
    (\A p \in Procs : pc[p] = "idle")
    => \A b \in BarePaths :
          mirror[b].state # "absent"
          => RefspecOf(mirror[b]) = "+refs/heads/*:refs/remotes/origin/*"

\* C7 as claimed: the mirror is created by the first call that references
\* the repo and re-fetched by every later call that references it.
C7_EveryLaterCallFetches ==
    \A p \in Procs :
        Done(p)
        => IF call[p].bare_existed
           THEN \E k \in DOMAIN call[p].ops : call[p].ops[k].op = "git_fetch"
           ELSE \E k \in DOMAIN call[p].ops : call[p].ops[k].op = "bare_clone"

\* C7 amended: a call that finds the bare path missing runs bare_clone, a
\* call that finds it present and its own worktree path missing runs
\* git_fetch, a call that finds its worktree path present touches nothing
\* (no fetch); a mirror comes into being only in the clone step of
\* bare_clone and is never deleted.
C7_FetchUnlessReused ==
    /\ [](\A p \in Procs :
            Done(p)
            => /\ call[p].wt_existed => call[p].ops = <<>>
               /\ ~call[p].wt_existed /\ call[p].bare_existed
                     => call[p].ops # <<>> /\ call[p].ops[1].op = "git_fetch"
               /\ ~call[p].wt_existed /\ ~call[p].bare_existed
                     => call[p].ops # <<>> /\ call[p].ops[1].op = "bare_clone")
    /\ [][\A b \in BarePaths :
            /\ mirror[b].state # "absent" => mirror'[b].state # "absent"
            /\ mirror[b].state = "absent" /\ mirror'[b].state # "absent"
                  => \E p \in Procs :
                        /\ pc[p] = "clone_clone"
                        /\ bare_clone_path(call[p].issue) = b]_vars

C7_Witness ==
    \E p \in Procs :
        /\ Done(p)
        /\ call[p].bare_existed /\ ~call[p].wt_existed
        /\ call[p].ops[1].op = "git_fetch"
        /\ prev.valid /\ prev.issue # call[p].issue

-----------------------------------------------------------------------------
(* Properties of detect_default_branch *)

ProbeOrder == <<"symbolic-ref", "remote-show", "main", "master", "develop">>

CouldNotDetect == "Could not detect default branch for the repository"

\* Position of the "HEAD branch" field in the text of `git remote show`.
HeadBranchFields(text) ==
    {k \in 1..(Len(text) - 1) : text[k] = "HEAD branch: "}

FirstHeadBranch(text) ==
    text[1 + CHOOSE k \in HeadBranchFields(text) :
                 \A j \in HeadBranchFields(text) : k <= j]

\* Whether a probe, given what the command did, has an answer, and which.
Produced(pr) ==
    /\ pr.out.success
    /\ pr.probe = "symbolic-ref" =>
          Len(pr.out.stdout) >= 2 /\ pr.out.stdout[1] = "refs/remotes/origin/"
    /\ pr.probe = "remote-show" => HeadBranchFields(pr.out.stdout) # {}

AnswerOf(pr) ==
    CASE pr.probe = "symbolic-ref" -> pr.out.stdout[2]
      [] pr.probe = "remote-show" -> FirstHeadBranch(pr.out.stdout)
      [] OTHER -> pr.probe

Detected(p) == pc[p] \in {"exists", "create", "done"} /\ call[p].probes # <<>>

\* C8: the probes run in the order symbolic-ref, remote-show, main, master,
\* develop; a probe runs only if no earlier probe had an answer; once a probe
\* has an answer no further probe runs and that answer is the branch
\* returned.
C8_TiersInOrder ==
    \A p \in Procs :
        LET P == call[p].probes
            n == Len(P)
        IN  /\ n <= Len(ProbeOrder)
            /\ \A k \in 1..n : P[k].probe = ProbeOrder[k]
            /\ \A k \in 1..(n - 1) : ~Produced(P[k])
            /\ n >= 1 /\ Produced(P[n])
                  => /\ pc[p] \in {"exists", "create", "done"}
                     /\ call[p].base_branch = AnswerOf(P[n])
                     /\ Len(call[p].ops) >= 2
                     /\ call[p].ops[2] = Op("detect_default_branch", AnswerOf(P[n]), FALSE, <<>>)
            /\ pc[p] = "tier2" => n = 1
            /\ pc[p] = "tier3" => n >= 2

C8_Witness ==
    \E p \in Procs :
        /\ Len(call[p].probes) = 4
        /\ Produced(call[p].probes[4])
        /\ call[p].base_branch = "master"

\* C9: when the symbolic ref origin/HEAD is not available (symbolic-ref exits
\* with failure) and `git remote show origin` succeeds and prints a HEAD
\* branch field, detection succeeds with the branch named in the field and
\* probes no candidate.
C9_RemoteShowTier ==
    \A p \in Procs :
        LET P == call[p].probes
        IN  (/\ Len(P) >= 2
             /\ P[1].out.spawned /\ ~P[1].out.success
             /\ P[2].out.success
             /\ HeadBranchFields(P[2].out.stdout) # {})
            => /\ Len(P) = 2
               /\ pc[p] \in {"exists", "create", "done"}
               /\ call[p].base_branch = FirstHeadBranch(P[2].out.stdout)
               /\ Len(call[p].ops) >= 2
               /\ call[p].ops[2].op = "detect_default_branch"
               /\ call[p].ops[2].branch = FirstHeadBranch(P[2].out.stdout)
               /\ call[p].result.err # CouldNotDetect

C9_Witness ==
    \E p \in Procs :
        /\ Len(call[p].probes) = 2
        /\ ~call[p].probes[1].out.success
        /\ call[p].probes[2].out.stdout = ShowTrunk
        /\ pc[p] = "exists"
        /\ call[p].base_branch = "trunk"

\* C10 as claimed: when tiers 1 and 2 have no answer the candidates main,
\* master, develop are probed in that order and the first whose ref exists is
\* returned; the error "Could not detect default branch" is returned exactly
\* when no tier has an answer.
C10_FailsExactlyWhenNoAnswer ==
    \A p \in Procs :
        Detected(p)
        => LET P == call[p].probes
               n == Len(P)
           IN  /\ call[p].result.err = CouldNotDetect
                     <=> \A k \in 1..n : ~Produced(P[k])
               /\ \A k \in 3..n : P[k].probe = <<"main", "master", "develop">>[k - 2]

\* C10 amended: when tiers 1 and 2 ran and have no answer the candidates
\* main, master, develop are probed in that order, up to the first whose ref
\* exists, which is returned, or up to a probe that cannot be started; the
\* error "Could not detect default branch" is returned exactly when all five
\* probes ran and none has an answer; a probe that cannot be started ends the
\* detection with its own "Failed to run" error.
C10_CandidateTier ==
    \A p \in Procs :
        Detected(p)
        => LET P == call[p].probes
               n == Len(P)
               refs == mirror[bare_clone_path(call[p].issue)].refs
               order == <<"main", "master", "develop">>
           IN  /\ call[p].result.err = CouldNotDetect
                     <=> /\ n = 5
                         /\ \A k \in 1..n : P[k].out.spawned /\ ~Produced(P[k])
               /\ \A k \in 3..n : P[k].probe = order[k - 2]
               /\ (n >= 2 /\ \A k \in 1..2 : P[k].out.spawned /\ ~Produced(P[k]))
                     => n >= 3
               /\ n >= 3 /\ P[n].out.spawned
                     => \/ /\ order[n - 2] \in refs
                           /\ \A k \in 1..(n - 3) : order[k] \notin refs
                           /\ call[p].base_branch = order[n - 2]
                        \/ /\ n = 5
                           /\ \A k \in 1..3 : order[k] \notin refs
                           /\ call[p].result.err = CouldNotDetect
               /\ \A k \in 1..n :
                     ~P[k].out.spawned
                     => /\ k = n
                        /\ ~call[p].result.ok
                        /\ call[p].result.err # CouldNotDetect

C10_Witness ==
    \E p \in Procs :
        /\ Done(p)
        /\ Len(call[p].probes) = 5
        /\ call[p].result.err = CouldNotDetect

-----------------------------------------------------------------------------
(* Properties of branch_exists_remote and create_worktree *)

\* C11: branch_exists_remote never makes open_or_create fail: when its probe
\* cannot be run or exits unsuccessfully it returns false, and the call goes
\* on to create_worktree with the arguments that create a new branch.
C11_ProbeFailureIsNo ==
    /\ [](\A p \in Procs :
            (/\ pc[p] \in {"create", "done"}
             /\ Len(call[p].ops) >= 3
             /\ ~(call[p].exists_out.spawned /\ call[p].exists_out.success))
            => /\ call[p].ops[3].op = "branch_exists_remote"
               /\ call[p].ops[3].flag = FALSE
               /\ call[p].branch_exists = FALSE
               /\ pc[p] = "done"
                     => /\ Len(call[p].ops) = 4
                        /\ call[p].ops[4].op = "create_worktree"
                        /\ call[p].ops[4].flag = FALSE
                        /\ Len(call[p].ops[4].args) = 4
                        /\ call[p].ops[4].args[2] = "-b")
    /\ [][\A p \in Procs :
            pc[p] = "exists" /\ pc'[p] # "exists"
            => /\ pc'[p] = "create"
               /\ call'[p].result = NoResult]_vars

C11_Witness ==
    \E p \in Procs :
        /\ Done(p)
        /\ Len(call[p].ops) = 4
        /\ ~call[p].exists_out.spawned
        /\ call[p].ops[4].args[2] = "-b"
        /\ call[p].result.ok /\ call[p].result.created

\* C12: every create_worktree call takes one of two paths: with branch_exists
\* it adds a worktree that tracks origin/{branch} and creates no branch from
\* the base branch; without it it creates the branch {branch} from
\* origin/{base_branch} and tracks nothing.  (Unless git cannot be started or
\* fails for a reason of the environment, the worktree is added.)
C12_OnePathPerCall ==
    \A p \in Procs :
        Done(p) /\ Len(call[p].ops) = 4
        => LET cw == call[p].ops[4]
               i == call[p].issue
               dest == temp_path(i)
           IN  /\ cw.flag =>
                     cw.args = <<dest, "--track", "origin/" \o branch_name(i)>>
               /\ ~cw.flag =>
                     cw.args = <<dest, "-b", branch_name(i), "origin/" \o cw.branch>>
               /\ call[p].cw_outcome \notin {"spawn_err", "exit_fail", "exit_fail_dir"}
                     => worktree[dest] = IF cw.flag THEN "tracking" ELSE "new-branch"

-----------------------------------------------------------------------------
(* Text handed to the parser.  A text is a sequence of tokens: each         *)
(* character of Delimiters is a token of its own, a percent escape is one   *)
(* token, and every other token is a word, a maximal run of other           *)
(* characters (two words are never adjacent).                               *)

Delimiters == {"/", ":", "?", "&", "=", "#", "@", "-", " ", "{", "}"}

PercentEscapes == {"%2F", "%3A", "%20"}

IsWord(t) == t \notin Delimiters \cup PercentEscapes

\* str::find for one character: its first position, 0 when it is absent.
find(s, c) ==
    IF \E k \in 1..Len(s) : s[k] = c
    THEN CHOOSE k \in 1..Len(s) : s[k] = c /\ \A j \in 1..(k - 1) : s[j] # c
    ELSE 0

\* str::rfind for one character: its last position, 0 when it is absent.
rfind(s, c) ==
    IF \E k \in 1..Len(s) : s[k] = c
    THEN CHOOSE k \in 1..Len(s) : s[k] = c /\ \A j \in (k + 1)..Len(s) : s[j] # c
    ELSE 0

\* The text around position k, <<FALSE, <<>>, <<>>>> for k = 0.
split_at(s, k) ==
    IF k = 0 THEN <<FALSE, <<>>, <<>>>>
    ELSE <<TRUE, SubSeq(s, 1, k - 1), SubSeq(s, k + 1, Len(s))>>

\* str::split_once: split at the first occurrence of the character.
split_once(s, c) == split_at(s, find(s, c))

\* str::rsplit_once: split at the last occurrence of the character.
rsplit_once(s, c) == split_at(s, rfind(s, c))

\* str::split: the pieces between the occurrences of the character.
RECURSIVE split(_, _)
split(s, c) ==
    LET k == find(s, c)
    IN  IF k = 0 THEN <<s>>
        ELSE <<SubSeq(s, 1, k - 1)>> \o split(SubSeq(s, k + 1, Len(s)), c)

\* str::starts_with for a prefix that ends at a token boundary.
starts_with(s, prefix) ==
    Len(s) >= Len(prefix) /\ SubSeq(s, 1, Len(prefix)) = prefix

\* The first position of s that holds one of the characters, Len(s) + 1 when
\* there is none.
find_any(s, chars) ==
    IF \E k \in 1..Len(s) : s[k] \in chars
    THEN CHOOSE k \in 1..Len(s) : s[k] \in chars /\ \A j \in 1..(k - 1) : s[j] \notin chars
    ELSE Len(s) + 1

\* u64::from_str: decimal digits only, leading zeros allowed, at most 2^64 - 1.
\* The words of the model that it accepts, and their values.
u64_words == {"0", "1", "7", "42", "007"}

u64_value(w) ==
    CASE w = "0" -> 0
      [] w = "1" -> 1
      [] w \in {"7", "007"} -> 7
      [] w = "42" -> 42

\* str::parse::<u64>: <<TRUE, n>> or <<FALSE, 0>>.
parse_u64(s) ==
    IF Len(s) = 1 /\ s[1] \in u64_words THEN <<TRUE, u64_value(s[1])>>
    ELSE <<FALSE, 0>>

\* The number of characters of a word made of hexadecimal digits only, for
\* the lengths a UUID is built from; 0 for every other word.
hex_len(w) ==
    CASE w \in {"9cad7a4b", "9CAD7A4B"} -> 8
      [] w \in {"9426", "4788", "9dbc"} -> 4
      [] w = "e784df999053" -> 12
      [] w = "9cad7a4b942647889dbce784df999053" -> 32
      [] OTHER -> 0

\* 36 characters: hexadecimal digits with a hyphen at positions 9, 14, 19, 24.
Hyphenated(s) ==
    /\ Len(s) = 9
    /\ \A k \in {2, 4, 6, 8} : s[k] = "-"
    /\ hex_len(s[1]) = 8
    /\ \A k \in {3, 5, 7} : hex_len(s[k]) = 4
    /\ hex_len(s[9]) = 12

\* The strict validator of src/issue.rs: exactly five hyphen-separated groups
\* of 8, 4, 4, 4 and 12 hexadecimal digits.
is_uuid(s) ==
    LET parts == split(s, "-")
    IN  /\ Len(parts) = 5
        /\ \A k \in 1..5 :
              /\ Len(parts[k]) = 1
              /\ hex_len(parts[k][1]) = <<8, 4, 4, 4, 12>>[k]

\* uuid::Uuid::parse_str(..).is_ok(): the crate accepts 32 hexadecimal digits
\* without hyphens, the hyphenated form, the hyphenated form in braces and
\* the hyphenated form after "urn:uuid:".
uuid_parse_str(s) ==
    \/ Len(s) = 1 /\ hex_len(s[1]) = 32
    \/ Hyphenated(s)
    \/ Len(s) = 11 /\ s[1] = "{" /\ s[11] = "}" /\ Hyphenated(SubSeq(s, 2, 10))
    \/ /\ Len(s) = 13
       /\ SubSeq(s, 1, 4) = <<"urn", ":", "uuid", ":">>
       /\ Hyphenated(SubSeq(s, 5, 13))

-----------------------------------------------------------------------------
(* url::Url, as far as the parser uses it: parse, path_segments and         *)
(* query_pairs.  Texts with "." or ".." path segments, tabs, backslashes    *)
(* or bracketed hosts are outside the model.                                *)

\* Words that can be a scheme: a letter first, then letters, digits, + - .
SchemeWords ==
    {"worktree", "https", "http", "mailto", "urn", "github.com", "gitlab.com",
     "github.com.evil.io", "open", "owner", "repo", "issue", "issues", "url",
     "editor", "acme", "api", "code", "e784df999053"}

SpecialSchemes == {"http", "https"}

UrlErr == [ok |-> FALSE, scheme |-> "", special |-> FALSE, host |-> <<>>,
           path |-> <<>>, query |-> <<>>]

RECURSIVE skip_slashes(_)
skip_slashes(s) == IF s # <<>> /\ Head(s) = "/" THEN skip_slashes(Tail(s)) ELSE s

\* Url::parse of an absolute URL.  A special scheme (http, https) ignores the
\* number of slashes after the colon and needs a host; any other scheme has
\* an authority only after "//".  The authority ends at the first / ? or #,
\* the host follows the last @ in it, and a port must be a number.  The path
\* ends at the first ? or #, the query at the first #.
url_parse(s) ==
    IF ~(Len(s) >= 2 /\ s[1] \in SchemeWords /\ s[2] = ":") THEN UrlErr
    ELSE LET scheme == s[1]
             special == scheme \in SpecialSchemes
             rest == SubSeq(s, 3, Len(s))
             has_authority == special \/ starts_with(rest, <<"/", "/">>)
             body == IF special THEN skip_slashes(rest)
                     ELSE IF has_authority THEN SubSeq(rest, 3, Len(rest))
                     ELSE rest
             a_end == IF has_authority THEN find_any(body, {"/", "?", "#"}) ELSE 1
             authority == SubSeq(body, 1, a_end - 1)
             hostport == IF rfind(authority, "@") = 0 THEN authority
                         ELSE rsplit_once(authority, "@")[3]
             colon == find(hostport, ":")
             host == IF colon = 0 THEN hostport ELSE SubSeq(hostport, 1, colon - 1)
             port == IF colon = 0 THEN <<>> ELSE SubSeq(hostport, colon + 1, Len(hostport))
             after == SubSeq(body, a_end, Len(body))
             p_end == find_any(after, {"?", "#"})
             path == SubSeq(after, 1, p_end - 1)
             q_rest == SubSeq(after, p_end, Len(after))
             query == IF q_rest # <<>> /\ Head(q_rest) = "?"
                      THEN SubSeq(q_rest, 2, find_any(q_rest, {"#"}) - 1)
                      ELSE <<>>
             host_ok == IF special
                        THEN host # <<>> /\ \A k \in 1..Len(host) : IsWord(host[k]) \/ host[k] = "-"
                        ELSE \A k \in 1..Len(host) : host[k] # " "
             port_ok == port = <<>> \/ parse_u64(port)[1]
         IN  IF has_authority /\ ~(host_ok /\ port_ok) THEN UrlErr
             ELSE [ok |-> TRUE, scheme |-> scheme, special |-> special,
                   host |-> host, path |-> path, query |-> query]

\* The path percent-encode set: a space and braces are escaped in a path.
path_encode(t) ==
    CASE t = " " -> "%20"
      [] t = "{" -> "%7B"
      [] t = "}" -> "%7D"
      [] OTHER -> t

\* Url::path_segments: None (<<FALSE, _>>) for a URL whose path does not start
\* with "/"; the path of a special URL is never empty.  Segments keep their
\* percent escapes.
path_segments(url) ==
    LET path == IF url.special /\ url.path = <<>> THEN <<"/">> ELSE url.path
    IN  IF path = <<>> \/ Head(path) # "/" THEN <<FALSE, <<>>>>
        ELSE <<TRUE, split([k \in 1..(Len(path) - 1) |-> path_encode(path[k + 1])], "/")>>

\* form_urlencoded percent decoding.
percent_decode(t) ==
    CASE t = "%2F" -> "/"
      [] t = "%3A" -> ":"
      [] t = "%20" -> " "
      [] OTHER -> t

decode(s) == [k \in 1..Len(s) |-> percent_decode(s[k])]

\* Url::query_pairs: the non-empty pieces between "&", each split at its
\* first "=", key and value percent-decoded.
query_pairs(url) ==
    LET pieces == SelectSeq(split(url.query, "&"), LAMBDA x : x # <<>>)
    IN  [k \in 1..Len(pieces) |->
            LET kv == split_once(pieces[k], "=")
            IN  IF kv[1] THEN [key |-> decode(kv[2]), val |-> decode(kv[3])]
                ELSE [key |-> decode(pieces[k]), val |-> <<>>]]

-----------------------------------------------------------------------------
(* src/issue/parse/mod.rs, shorthand.rs, worktree_url.rs *)

\* Lines 64-78: at least four segments, the third one "issues", the fourth
\* the number.
issue_of_segments(segments) ==
    IF Len(segments) < 4 \/ segments[3] # <<"issues">>
    THEN ParseErr("Expected GitHub issue URL")
    ELSE IF ~parse_u64(segments[4])[1]
    THEN ParseErr("Invalid issue number in URL")
    ELSE ParseOk(GitHub(to_string(segments[1]), to_string(segments[2]),
                        parse_u64(segments[4])[2]), None)

\* Lines 58-62: the non-empty path segments.
issue_of_path(ps) ==
    IF ~ps[1] THEN ParseErr("URL has no path")
    ELSE issue_of_segments(SelectSeq(ps[2], LAMBDA x : x # <<>>))

\* Lines 56-62.
issue_of_url(url) ==
    IF ~url.ok THEN ParseErr("Invalid URL") ELSE issue_of_path(path_segments(url))

\* parse_github_url, src/issue/parse/mod.rs:55-79.
parse_github_url(s) == issue_of_url(url_parse(s))

\* Option<Result<IssueRef>>
NoMatch == [some |-> FALSE, result |-> NotParsed]

Some(result) == [some |-> TRUE, result |-> result]

\* src/issue/parse/shorthand.rs:7-20, for the text on each side of the "@":
\* the left side is split at its first "/".
linear_parts(sl, id) ==
    IF ~sl[1] THEN NoMatch
    ELSE IF sl[2] = <<>> \/ sl[3] = <<>>
    THEN Some(ParseErr("Invalid shorthand format"))
    ELSE IF ~uuid_parse_str(id)
    THEN Some(ParseErr("Invalid Linear issue UUID in shorthand"))
    ELSE Some(ParseOk(Linear(to_string(sl[2]), to_string(sl[3]), to_string(id)), None))

\* Line 6, where at is the text split at an "@".
linear_split(at) ==
    IF ~at[1] THEN NoMatch ELSE linear_parts(split_once(at[2], "/"), at[3])

\* The owner/repo@<uuid> form, src/issue/parse/shorthand.rs:6-21: the text is
\* split at its first "@", the left side at its first "/".
linear_shorthand(s) == linear_split(split_once(s, "@"))

\* Mutant: owner and repo are exchanged.
github_parts_m(sl, num_str) ==
    IF ~sl[1] THEN NoMatch
    ELSE IF sl[2] = <<>> \/ sl[3] = <<>>
    THEN Some(ParseErr("Invalid shorthand format"))
    ELSE IF ~parse_u64(num_str)[1]
    THEN Some(ParseErr("Invalid issue number in shorthand"))
    ELSE Some(ParseOk(GitHub(to_string(sl[3]), to_string(sl[2]),
                             parse_u64(num_str)[2]), None))

\* src/issue/parse/shorthand.rs:24-43, for the text on each side of the "#".
github_parts(sl, num_str) ==
    IF ~sl[1] THEN NoMatch
    ELSE IF sl[2] = <<>> \/ sl[3] = <<>>
    THEN Some(ParseErr("Invalid shorthand format"))
    ELSE IF ~parse_u64(num_str)[1]
    THEN Some(ParseErr("Invalid issue number in shorthand"))
    ELSE Some(ParseOk(GitHub(to_string(sl[2]), to_string(sl[3]),
                             parse_u64(num_str)[2]), None))

\* Line 23, where hash is the text split at its first "#".
github_split(hash) ==
    IF ~hash[1] THEN NoMatch ELSE github_parts(split_once(hash[2], "/"), hash[3])

\* The owner/repo#N form, src/issue/parse/shorthand.rs:23-43.
github_shorthand(s) == github_split(split_once(s, "#"))

\* try_parse_shorthand, src/issue/parse/shorthand.rs:5-44.  A text with an
\* "@" is handled by the first block only: each `?` in it returns None from
\* the whole function.
try_parse_shorthand(s) ==
    IF find(s, "@") # 0 THEN linear_shorthand(s) ELSE github_shorthand(s)

\* The locals of parse_worktree_url, lines 8-13; an Option is a sequence of
\* at most one element.  err is the error that ended the loop, if any.
NoParams ==
    [owner |-> <<>>, repo |-> <<>>, issue_num |-> <<>>, linear_id |-> <<>>,
     url_param |-> <<>>, editor |-> <<>>, err |-> ""]

\* One pair of the loop of lines 15-38.
query_pair(key, val, acc) ==
    CASE key = <<"owner">> -> [acc EXCEPT !.owner = <<to_string(val)>>]
      [] key = <<"repo">> -> [acc EXCEPT !.repo = <<to_string(val)>>]
      [] key = <<"issue">> ->
           IF parse_u64(val)[1] THEN [acc EXCEPT !.issue_num = <<parse_u64(val)[2]>>]
           ELSE [acc EXCEPT !.err = "Invalid issue number"]
      [] key = <<"linear_id">> ->
           IF uuid_parse_str(val) THEN [acc EXCEPT !.linear_id = <<to_string(val)>>]
           ELSE [acc EXCEPT !.err = "Invalid Linear issue UUID"]
      [] key = <<"url">> -> [acc EXCEPT !.url_param = <<val>>]
      [] key = <<"editor">> -> [acc EXCEPT !.editor = <<to_string(val)>>]
      [] OTHER -> acc

\* The loop of lines 15-38 over the query pairs, in their order: a later pair
\* overwrites an earlier one, a bad issue or linear_id value ends the parse.
RECURSIVE query_loop(_, _)
query_loop(pairs, acc) ==
    IF pairs = <<>> \/ acc.err # "" THEN acc
    ELSE query_loop(Tail(pairs), query_pair(Head(pairs).key, Head(pairs).val, acc))

\* Line 44: the result of the nested URL with the options of the deep link.
with_editor(r, editor) == IF r.ok THEN ParseOk(r.issue, editor) ELSE r

\* Mutant: a complete owner, repo and issue are not overridden by url.
nested_url_m(q, editor) ==
    IF q.owner # <<>> /\ q.repo # <<>> /\ q.issue_num # <<>>
    THEN ParseOk(GitHub(q.owner[1], q.repo[1], q.issue_num[1]), editor)
    ELSE with_editor(parse_github_url(q.url_param[1]), editor)

\* Lines 42-44: the url parameter is handed to parse_github_url.
nested_url(q, editor) == with_editor(parse_github_url(q.url_param[1]), editor)

\* Lines 46-55: the Linear identity, owner and repo being required.
linear_identity(q, editor) ==
    IF q.owner = <<>> THEN ParseErr("Missing 'owner' query param")
    ELSE IF q.repo = <<>> THEN ParseErr("Missing 'repo' query param")
    ELSE ParseOk(Linear(q.owner[1], q.repo[1], q.linear_id[1]), editor)

\* Mutant: the messages for owner and repo are exchanged.
github_identity_m(q, editor) ==
    IF q.owner = <<>> THEN ParseErr("Missing 'repo' query param")
    ELSE IF q.repo = <<>> THEN ParseErr("Missing 'owner' query param")
    ELSE IF q.issue_num = <<>> THEN ParseErr("Missing 'issue' query param")
    ELSE ParseOk(GitHub(q.owner[1], q.repo[1], q.issue_num[1]), editor)

\* Lines 57-64: the GitHub identity, owner, repo and issue being required.
github_identity(q, editor) ==
    IF q.owner = <<>> THEN ParseErr("Missing 'owner' query param")
    ELSE IF q.repo = <<>> THEN ParseErr("Missing 'repo' query param")
    ELSE IF q.issue_num = <<>> THEN ParseErr("Missing 'issue' query param")
    ELSE ParseOk(GitHub(q.owner[1], q.repo[1], q.issue_num[1]), editor)

\* Mutant: linear_id is looked at before url.
resolve_m(q, editor) ==
    IF q.linear_id # <<>> THEN linear_identity(q, editor)
    ELSE IF q.url_param # <<>> THEN nested_url(q, editor)
    ELSE github_identity(q, editor)

\* Lines 40-64: url first, then linear_id, then issue.
resolve(q, editor) ==
    IF q.url_param # <<>> THEN nested_url(q, editor)
    ELSE IF q.linear_id # <<>> THEN linear_identity(q, editor)
    ELSE github_identity(q, editor)

\* Lines 15-64, for the locals q as the loop left them.
after_loop(q) ==
    IF q.err # "" THEN ParseErr(q.err)
    ELSE resolve(q, IF q.editor = <<>> THEN None ELSE q.editor[1])

\* Lines 7-64.
deep_link_of_url(url) ==
    IF ~url.ok THEN ParseErr("Invalid URL")
    ELSE after_loop(query_loop(query_pairs(url), NoParams))

\* parse_worktree_url, src/issue/parse/worktree_url.rs:6-65.
parse_worktree_url(s) == deep_link_of_url(url_parse(s))

\* Words that start with "github.com".
github_prefix(w) == w \in {"github.com", "github.com.evil.io"}

\* s.starts_with("<scheme>://github.com")
starts_with_github(s, scheme) ==
    /\ starts_with(s, <<scheme, ":", "/", "/">>)
    /\ Len(s) >= 5
    /\ github_prefix(s[5])

IsDeepLink(s) == starts_with(s, <<"worktree", ":", "/", "/">>)

IsWebUrl(s) == starts_with_github(s, "https") \/ starts_with_github(s, "http")

\* Drops the DeepLinkOptions of a result.
issue_only(r) == IF r.ok THEN ParseOk(r.issue, None) ELSE r

\* Lines 29-41.
shorthand_or_error(r) ==
    IF r.some THEN r.result ELSE ParseErr("Could not parse issue reference")

\* Lines 20-41, s being the trimmed text.
parse_trimmed(s) ==
    IF IsDeepLink(s) THEN issue_only(parse_worktree_url(s))
    ELSE IF IsWebUrl(s) THEN parse_github_url(s)
    ELSE shorthand_or_error(try_parse_shorthand(s))

\* IssueRef::parse, src/issue/parse/mod.rs:17-42.
parse(text) == parse_trimmed(trim(text))

\* Mutant: a text that is no deep link is parsed as a web URL only.
parse_with_options_trimmed_m(s) ==
    IF IsDeepLink(s) THEN parse_worktree_url(s) ELSE parse_github_url(s)

\* Lines 48-51, s being the trimmed text.
parse_with_options_trimmed(s) ==
    IF IsDeepLink(s) THEN parse_worktree_url(s) ELSE parse(s)

\* IssueRef::parse_with_options, src/issue/parse/mod.rs:46-52.
parse_with_options(text) == parse_with_options_trimmed(trim(text))

-----------------------------------------------------------------------------
(* The texts the parser is run on. *)

MaxParams == 2

MaxSegments == 5

MaxDelims == 3

\* All sequences over S of length at most n.
SeqsUpTo(S, n) == UNION {[1..k -> S] : k \in 0..n}

\* The texts of ss one after the other, each preceded by sep.
RECURSIVE prefixed(_, _)
prefixed(ss, sep) ==
    IF ss = <<>> THEN <<>> ELSE sep \o Head(ss) \o prefixed(Tail(ss), sep)

\* The texts of ss separated by sep.
joined(ss, sep) == IF ss = <<>> THEN <<>> ELSE Tail(prefixed(ss, <<sep>>))

UuidText == <<"9cad7a4b", "-", "9426", "-", "4788", "-", "9dbc", "-", "e784df999053">>

SimpleUuidText == <<"9cad7a4b942647889dbce784df999053">>

\* https://github.com/acme/api/issues/42 with its colon and slashes escaped.
EscapedIssueUrl ==
    <<"https", "%3A", "%2F", "%2F", "github.com", "%2F", "acme", "%2F", "api",
      "%2F", "issues", "%2F", "42">>

Param(key, val) == <<key, "=">> \o val

IdentityParams ==
    {Param("issue", <<"7">>), Param("issue", <<"abc">>),
     Param("linear_id", UuidText), Param("linear_id", <<"zzzz">>),
     Param("url", EscapedIssueUrl),
     Param("url", <<"https", ":", "/", "/", "gitlab.com", "/", "acme", "/", "api", "/", "issues", "/", "7">>),
     Param("url", <<"acme", "/", "api">>)}

ParamTexts ==
    IdentityParams \cup
    {Param("owner", <<"acme">>), Param("owner", <<>>), Param("repo", <<"api">>),
     Param("editor", <<"code">>)}

DeepLinkHead == <<"worktree", ":", "/", "/", "open", "?">>

DeepLinks ==
    {DeepLinkHead \o joined(head \o tail, "&") :
        head \in {<<>>, <<Param("owner", <<"acme">>), Param("repo", <<"api">>)>>},
        tail \in SeqsUpTo(ParamTexts, MaxParams)}
    \cup {<<"worktree", ":", "/", "/", "open">>,
          <<"worktree", ":", "/", "/", "open", ":", "abc", "?">>
              \o joined(<<Param("owner", <<"acme">>), Param("repo", <<"api">>),
                          Param("issue", <<"7">>)>>, "&")}

Segments == {<<"acme">>, <<"api">>, <<"issues">>, <<"7">>, <<>>}

WebHead(scheme, host) == <<scheme, ":", "/", "/", host>>

IssuePath == <<"/", "acme", "/", "api", "/", "issues", "/", "7">>

WebUrls ==
    {WebHead("https", "github.com") \o prefixed(segs, <<"/">>) :
        segs \in SeqsUpTo(Segments, MaxSegments)}
    \cup {WebHead(scheme, host) \o IssuePath :
            scheme \in {"http", "https"},
            host \in {"github.com", "github.com.evil.io", "gitlab.com"}}
    \cup {WebHead("https", "github.com") \o IssuePath \o tail :
            tail \in {<<"?", "acme">>, <<"#", "acme">>}}

\* Texts in the place of a Linear id: the hyphenated form, 32 digits without
\* hyphens, the braced form, the URN form, and a text with a group missing.
IdTexts ==
    {UuidText, SimpleUuidText, <<"{">> \o UuidText \o <<"}">>,
     <<"urn", ":", "uuid", ":">> \o UuidText,
     <<"9cad7a4b94264788", "-", "9dbc", "-", "e784df999053">>}

ShortWords == {<<>>, <<"acme">>, <<"7">>}

ShortTails == ShortWords \cup {UuidText}

ShortDelims == {"/", "#", "@"}

\* ws[1] ds[1] ws[2] ... ds[k] ws[k+1]
RECURSIVE interleave(_, _)
interleave(ws, ds) ==
    IF ds = <<>> THEN Head(ws)
    ELSE Head(ws) \o <<Head(ds)>> \o interleave(Tail(ws), Tail(ds))

Shorthands ==
    UNION {{interleave(ws \o <<last>>, ds) :
                ws \in [1..k -> ShortWords], last \in ShortTails, ds \in [1..k -> ShortDelims]} :
              k \in 0..MaxDelims}
    \cup {<<"acme", "/", "api", "@">> \o id : id \in IdTexts}

Padded ==
    {<<" ">> \o s \o <<" ">> :
        s \in {<<"acme", "/", "api", "#", "7">>, DeepLinkHead \o Param("url", EscapedIssueUrl),
               WebHead("https", "github.com") \o IssuePath}}

\* Names made of letters, digits and hyphens, and names that hold a
\* character with a meaning in one of the forms.
PlainNames == {<<"acme">>, <<"api">>, <<"acme", "-", "7">>}

DelimitedNames == {<<"acme", "/", "api">>, <<"acme", "@", "api">>, <<"acme", " ", "api">>}

\* owner/repo#N
ShorthandForm(owner, repo, n) == owner \o <<"/">> \o repo \o <<"#", n>>

\* https://github.com/owner/repo/issues/N
UrlForm(owner, repo, n) ==
    WebHead("https", "github.com") \o <<"/">> \o owner \o <<"/">> \o repo
        \o <<"/", "issues", "/", n>>

CrossForms ==
    UNION {{ShorthandForm(o, r, n), UrlForm(o, r, n)} :
              o \in PlainNames \cup DelimitedNames,
              r \in PlainNames \cup DelimitedNames,
              n \in u64_words}

Inputs == DeepLinks \cup WebUrls \cup Shorthands \cup Padded \cup CrossForms

-----------------------------------------------------------------------------
(* Running the parser: parse, then parse_with_options, on one text. *)

ParseInit ==
    /\ LifecycleIdle
    /\ PathIdle
    /\ OpenIdle
    /\ input \in Inputs
    /\ parsed = NotParsed
    /\ with_options = NotParsed

Parse ==
    /\ parsed = NotParsed
    /\ parsed' = parse(input)
    /\ UNCHANGED <<input, with_options>>
    /\ UNCHANGED <<lifecycle_vars, path_vars, open_vars>>

ParseWithOptions ==
    /\ parsed # NotParsed
    /\ with_options = NotParsed
    /\ with_options' = parse_with_options(input)
    /\ UNCHANGED <<input, parsed>>
    /\ UNCHANGED <<lifecycle_vars, path_vars, open_vars>>

ParseNext == Parse \/ ParseWithOptions

ParseSpec == ParseInit /\ [][ParseNext]_vars

Parsed == parsed # NotParsed

ParsedWithOptions == with_options # NotParsed

-----------------------------------------------------------------------------
(* Properties of the parser *)

\* C13: parse tries the four forms in the order deep link, web issue URL,
\* owner/repo@<uuid>, owner/repo#N; its result is the result of the first form
\* the text matches, and a text that matches none of them fails with the
\* error that lists the accepted formats.
C13_FirstMatchWins ==
    Parsed =>
        parsed =
          IF IsDeepLink(trim(input)) THEN issue_only(parse_worktree_url(trim(input)))
          ELSE IF IsWebUrl(trim(input)) THEN parse_github_url(trim(input))
          ELSE IF linear_shorthand(trim(input)).some THEN linear_shorthand(trim(input)).result
          ELSE IF github_shorthand(trim(input)).some THEN github_shorthand(trim(input)).result
          ELSE ParseErr("Could not parse issue reference")

\* The locals of parse_worktree_url after its loop over the query of a text.
Locals(text) == query_loop(query_pairs(url_parse(trim(text))), NoParams)

\* The identity r was taken from the parameter the order url, linear_id,
\* issue selects among those present in q.
TakenInOrder(q, r) ==
    IF q.url_param # <<>>
    THEN /\ r.ok = parse_github_url(q.url_param[1]).ok
         /\ r.ok => r.issue = parse_github_url(q.url_param[1]).issue
    ELSE IF q.linear_id # <<>>
    THEN r.ok => r.issue.variant = "Linear" /\ r.issue.id = q.linear_id[1]
    ELSE r.ok => /\ r.issue.variant = "GitHub"
                 /\ q.issue_num # <<>>
                 /\ r.issue.number = q.issue_num[1]

\* C14: the identity of a deep link is taken from url when url is present,
\* otherwise from linear_id when it is present, otherwise from issue; with
\* both url and linear_id the result is the GitHub identity of the nested URL.
C14_UrlThenLinearThenIssue ==
    (Parsed /\ IsDeepLink(trim(input)) /\ Locals(input).err = "")
        => TakenInOrder(Locals(input), parsed)

C14_Witness ==
    /\ Parsed
    /\ IsDeepLink(trim(input))
    /\ Locals(input).url_param # <<>>
    /\ Locals(input).linear_id # <<>>
    /\ Locals(input).owner # <<>>
    /\ Locals(input).repo # <<>>
    /\ parsed.ok
    /\ parsed.issue = GitHub("acme", "api", 42)

\* The query pairs of a text whose key is the given one, in their order.
PairsOf(text, key) ==
    SelectSeq(query_pairs(url_parse(trim(text))), LAMBDA kv : kv.key = <<key>>)

\* The decoded value of the last url parameter of a text.
LastUrl(text) == PairsOf(text, "url")[Len(PairsOf(text, "url"))].val

IsDeepLinkUrl(text) == IsDeepLink(trim(text)) /\ url_parse(trim(text)).ok

\* Every issue parameter is an unsigned integer and every linear_id parameter
\* is accepted by the UUID validation.
WellFormedValues(text) ==
    /\ \A k \in 1..Len(PairsOf(text, "issue")) : parse_u64(PairsOf(text, "issue")[k].val)[1]
    /\ \A k \in 1..Len(PairsOf(text, "linear_id")) :
          uuid_parse_str(PairsOf(text, "linear_id")[k].val)

\* C15 as stated: for a deep link with a url parameter the outcome of parse is
\* the outcome of parse_github_url on the decoded url value, whatever the
\* owner, repo, issue and linear_id parameters are.
C15_UrlOverridesAll ==
    (Parsed /\ IsDeepLinkUrl(input) /\ PairsOf(input, "url") # <<>>)
        => parsed = parse_github_url(LastUrl(input))

\* C15: for a deep link with a url parameter in which every issue parameter is
\* an unsigned integer and every linear_id parameter a valid UUID, the outcome
\* of parse is the outcome of parse_github_url on the decoded url value,
\* whatever the owner, repo, issue and linear_id parameters are.
C15_UrlOverridesWellFormed ==
    (Parsed /\ IsDeepLinkUrl(input) /\ PairsOf(input, "url") # <<>>
            /\ WellFormedValues(input))
        => parsed = parse_github_url(LastUrl(input))

C15_Witness ==
    /\ Parsed
    /\ IsDeepLinkUrl(input)
    /\ PairsOf(input, "url") # <<>>
    /\ PairsOf(input, "issue") # <<>>
    /\ PairsOf(input, "owner") # <<>>
    /\ WellFormedValues(input)
    /\ parsed.ok
    /\ parsed.issue.number = 42

\* The parameter is absent from the query of the text.
Absent(text, key) == PairsOf(text, key) = <<>>

\* One of the required fields of a deep link without url is missing.
FieldMissing(text) ==
    \/ Absent(text, "owner")
    \/ Absent(text, "repo")
    \/ Absent(text, "issue") /\ Absent(text, "linear_id")

\* The message names a field that is missing from the text.
NamesMissingField(text, err) ==
    \/ err = "Missing 'owner' query param" /\ Absent(text, "owner")
    \/ err = "Missing 'repo' query param" /\ Absent(text, "repo")
    \/ err = "Missing 'issue' query param" /\ Absent(text, "issue")

\* C16 as stated: a deep link without url parses only if owner, repo and one
\* of issue, linear_id are present, and when one of them is missing the error
\* names a field that is missing.
C16_MissingFieldNamed ==
    (Parsed /\ IsDeepLinkUrl(input) /\ Absent(input, "url") /\ FieldMissing(input))
        => ~parsed.ok /\ NamesMissingField(input, parsed.err)

\* C16: a deep link without url parses only if owner, repo and one of issue,
\* linear_id are present; when one of them is missing and every issue and
\* linear_id value present is well formed, the error names a field that is
\* missing.
C16_MissingFieldNamedWellFormed ==
    (Parsed /\ IsDeepLinkUrl(input) /\ Absent(input, "url") /\ FieldMissing(input))
        => /\ ~parsed.ok
           /\ WellFormedValues(input) => NamesMissingField(input, parsed.err)

C16_Witness ==
    /\ Parsed
    /\ IsDeepLinkUrl(input)
    /\ Absent(input, "url")
    /\ Absent(input, "owner")
    /\ ~Absent(input, "repo")
    /\ ~Absent(input, "issue")
    /\ WellFormedValues(input)
    /\ parsed = ParseErr("Missing 'owner' query param")

\* The non-empty path segments of a URL text.
WebSegments(text) ==
    SelectSeq(path_segments(url_parse(trim(text)))[2], LAMBDA x : x # <<>>)

\* C17: parse accepts a web issue URL only if its path segments are exactly
\* owner, repo, "issues" and an unsigned number; fewer segments, additional
\* segments, another third segment or a non-numeric fourth one are errors.
C17_ExactlyFourSegments ==
    (Parsed /\ IsWebUrl(trim(input)) /\ parsed.ok)
        => /\ Len(WebSegments(input)) = 4
           /\ WebSegments(input)[3] = <<"issues">>
           /\ parse_u64(WebSegments(input)[4])[1]

\* Both forms of owner, repo and N parse to GitHub{owner, repo, N}.
BothFormsYield(o, r, n) ==
    (Parsed /\ input \in {ShorthandForm(o, r, n), UrlForm(o, r, n)})
        => parsed = ParseOk(GitHub(to_string(o), to_string(r), u64_value(n)), None)

\* C18 as stated: for every non-empty owner and repo and every unsigned N,
\* owner/repo#N and https://github.com/owner/repo/issues/N both parse to
\* GitHub{owner, repo, N} with owner and repo as written.
C18_CrossFormAnyName ==
    \A o \in PlainNames \cup DelimitedNames, r \in PlainNames \cup DelimitedNames,
       n \in u64_words :
        BothFormsYield(o, r, n)

\* C18: for every owner and repo made of letters, digits and hyphens and
\* every N that fits 64 bits, owner/repo#N and
\* https://github.com/owner/repo/issues/N both parse to GitHub{owner, repo, N}
\* with owner and repo as written.
C18_CrossFormPlainName ==
    \A o \in PlainNames, r \in PlainNames, n \in u64_words : BothFormsYield(o, r, n)

C18_Witness ==
    /\ Parsed
    /\ input = UrlForm(<<"acme", "-", "7">>, <<"api">>, "007")
    /\ parsed = ParseOk(GitHub("acme-7", "api", 7), None)

\* owner/repo@X
LinearForm(owner, repo, x) == owner \o <<"/">> \o repo \o <<"@">> \o x

MentionsUuid(err) ==
    err \in {"Invalid Linear issue UUID in shorthand", "Invalid Linear issue UUID"}

\* C19: for every text owner/repo@X with non-empty owner and repo, parse
\* yields Linear{owner, repo, X} when X is a valid UUID, and otherwise fails
\* with an error that mentions "UUID", never with the identity of another
\* form (no GitHub identity when X contains '#').
C19_LinearOrUuidError ==
    \A o \in {<<"acme">>, <<"acme", "@", "acme">>}, r \in {<<"acme">>, <<"7">>},
       x \in {UuidText, <<"7">>, <<"7", "#", "7">>} :
        (Parsed /\ input = LinearForm(o, r, x))
            => IF x = UuidText
               THEN parsed = ParseOk(Linear(to_string(o), to_string(r), to_string(x)), None)
               ELSE ~parsed.ok /\ MentionsUuid(parsed.err)

\* The ids that are five hyphen-separated groups of 8, 4, 4, 4 and 12
\* hexadecimal digits.
CanonicalIds == {to_string(x) : x \in {t \in IdTexts : is_uuid(t)}}

\* C20: every Linear identity that parse or parse_with_options returns has an
\* id in the canonical form, five hyphen-separated groups of 8, 4, 4, 4 and 12
\* hexadecimal digits.
C20_LinearIdCanonical ==
    /\ (Parsed /\ parsed.ok /\ parsed.issue.variant = "Linear")
          => parsed.issue.id \in CanonicalIds
    /\ (ParsedWithOptions /\ with_options.ok /\ with_options.issue.variant = "Linear")
          => with_options.issue.id \in CanonicalIds

\* C21: every identity that parse or parse_with_options returns, through any
\* of the four forms, has a non-empty owner and a non-empty repo.
C21_OwnerRepoNonEmpty ==
    /\ (Parsed /\ parsed.ok) => parsed.issue.owner # "" /\ parsed.issue.repo # ""
    /\ (ParsedWithOptions /\ with_options.ok)
          => with_options.issue.owner # "" /\ with_options.issue.repo # ""

\* C22: for a text that is no deep link parse_with_options succeeds exactly
\* when parse does, with the same identity and with no editor; for a deep
\* link the identity of parse_with_options is the identity of parse.
C22_OptionsAgreeWithParse ==
    ParsedWithOptions =>
        /\ with_options.ok = parsed.ok
        /\ with_options.ok => with_options.issue = parsed.issue
        /\ ~IsDeepLink(trim(input)) => with_options.editor = None

C22_Witness ==
    /\ ParsedWithOptions
    /\ ~IsDeepLink(trim(input))
    /\ with_options.ok
    /\ with_options.issue = parsed.issue
    /\ with_options.issue.variant = "Linear"
    /\ with_options.editor = None

\* The text is a shorthand (no deep link, no web URL) with two or more "@".
SeveralAts(s) ==
    /\ ~IsDeepLink(s)
    /\ ~IsWebUrl(s)
    /\ find(s, "@") # 0
    /\ find(s, "@") # rfind(s, "@")

\* C26: the owner/repo@<uuid> shorthand is split on the last '@' of the
\* input: for every input with more than one '@', the part after the last
\* '@' is the candidate UUID and the part before it is split on '/' into
\* owner and repo.
C26_SplitOnLastAt ==
    (Parsed /\ SeveralAts(trim(input)))
        => parsed = shorthand_or_error(linear_split(rsplit_once(trim(input), "@")))

\* The text is an http or https URL whose host is github.com.
HostIsGitHub(s) ==
    /\ url_parse(s).ok
    /\ url_parse(s).scheme \in {"http", "https"}
    /\ url_parse(s).host = <<"github.com">>

\* C27: parse returns an identity through the web-issue-URL form only for
\* URLs whose scheme is http or https and whose host is exactly github.com;
\* a URL with any other host, given directly or as the nested url parameter
\* of a deep link, is rejected.
C27_GitHubHostOnly ==
    /\ (Parsed /\ IsWebUrl(trim(input)) /\ parsed.ok) => HostIsGitHub(trim(input))
    /\ (Parsed /\ IsDeepLinkUrl(input) /\ Locals(input).url_param # <<>> /\ parsed.ok)
          => HostIsGitHub(Locals(input).url_param[1])

-----------------------------------------------------------------------------
(* Running the path deriver on two identities.  IssueRef is a public enum    *)
(* of plain strings; the names below are ones IssueRef::parse returns: the   *)
(* shorthand acme/api/issue-1#1 gives repo "api/issue-1", the deep link      *)
(* owner=acme%2Fapi gives owner "acme/api".                                  *)

PathOwners == {"acme", "acme/api"}

PathRepos == {"api", "api/api", "api/issue-1"}

PathNumbers == 1..(MaxIssue + 1)

PathIds ==
    {GitHub(o, r, n) : o \in PathOwners, r \in PathRepos, n \in PathNumbers}
        \cup {Linear(o, r, Uuid1) : o \in PathOwners, r \in PathRepos}

Derived(i) ==
    [workspace_dir_name |-> workspace_dir_name(i),
     branch_name |-> branch_name(i),
     clone_url |-> clone_url(i),
     temp_path |-> temp_path(i),
     bare_clone_path |-> bare_clone_path(i)]

PathInit ==
    /\ LifecycleIdle
    /\ ParserIdle
    /\ OpenIdle
    /\ issue_pair \in PathIds \X PathIds
    /\ derived = NotDerived

Derive ==
    /\ derived = NotDerived
    /\ derived' = <<Derived(issue_pair[1]), Derived(issue_pair[2])>>
    /\ UNCHANGED issue_pair
    /\ UNCHANGED <<lifecycle_vars, parser_vars, open_vars>>

PathNext == Derive

PathSpec == PathInit /\ [][PathNext]_vars

HasDerived == derived # NotDerived

\* C23: temp_path and bare_clone_path are functions of the identity, and two
\* different identities never collide: different identities have different
\* temp_paths, identities that differ in owner or repo have different
\* bare_clone_paths, and no identity's temp_path is another identity's
\* bare_clone_path.
C23_NoCollision ==
    HasDerived =>
        /\ issue_pair[1] = issue_pair[2] => derived[1] = derived[2]
        /\ issue_pair[1] # issue_pair[2]
              => /\ derived[1].temp_path # derived[2].temp_path
                 /\ derived[1].temp_path # derived[2].bare_clone_path
        /\ (\/ issue_pair[1].owner # issue_pair[2].owner
            \/ issue_pair[1].repo # issue_pair[2].repo)
              => derived[1].bare_clone_path # derived[2].bare_clone_path

Root == "~/worktrees"

LeafOf(i) ==
    IF i.variant = "GitHub" THEN "issue-" \o ToString(i.number) ELSE "linear-" \o i.id

FollowsLayout(i, d) ==
    /\ d.bare_clone_path = Root \o "/github/" \o i.owner \o "/" \o i.repo
    /\ d.temp_path = d.bare_clone_path \o "/" \o d.workspace_dir_name
    /\ d.workspace_dir_name = LeafOf(i)
    /\ d.branch_name = d.workspace_dir_name
    /\ d.clone_url = "https://github.com/" \o i.owner \o "/" \o i.repo \o ".git"

-----------------------------------------------------------------------------
(* Successive open_or_create calls for two identities of which one has its  *)
(* bare path where the other has its worktree.                              *)

NestedBarePaths == {bare_clone_path(i) : i \in NestedIds}

NestedWorktreePaths == {temp_path(i) : i \in NestedIds}

NestedInit ==
    /\ mirror = [b \in NestedBarePaths |-> AbsentMirror]
    /\ worktree = [w \in NestedWorktreePaths |-> "absent"]
    /\ pc = [p \in Procs |-> "idle"]
    /\ call = [p \in Procs |-> IdleCall]
    /\ prev = NoPrev
    /\ ParserIdle
    /\ PathIdle
    /\ OpenIdle

NestedNext ==
    \E p \in Procs :
        \/ \E i \in NestedIds : SeqCall(p, i)
        \/ EnsureBare(p)
        \/ BareCloneClone(p)
        \/ BareCloneConfig(p)
        \/ BareCloneFetch(p)
        \/ GitFetch(p)
        \/ SymbolicRef(p)
        \/ RemoteShow(p)
        \/ ProbeCandidate(p)
        \/ BranchExistsRemote(p)
        \/ CreateWorktree(p)
        \/ Return(p)

NestedSpec == NestedInit /\ [][NestedNext]_vars

\* The running call is for the identity whose worktree path is w.
CallFor(w) == \E p \in Procs : pc[p] # "idle" /\ temp_path(call[p].issue) = w

\* Nothing is made inside a worktree directory that exists.
OutsideWorktrees(w) ==
    \A v \in DOMAIN worktree : WorktreeExists(worktree[v]) => ~inside(w, v)

\* C25: over any sequence of open_or_create calls, a call for identity A
\* never creates, modifies or deletes the worktree directory of a different
\* identity B, and once a worktree directory exists no later call deletes,
\* resets or recreates it: a worktree path changes only from absent, only
\* during a call for its own identity, and never inside the worktree
\* directory of another identity.
C25_WorktreePrivate ==
    [][\A w \in DOMAIN worktree :
          /\ WorktreeExists(worktree[w]) => worktree'[w] = worktree[w]
          /\ worktree'[w] # worktree[w] => CallFor(w) /\ OutsideWorktrees(w)]_vars

-----------------------------------------------------------------------------
(* The opener, src/opener/mod.rs, src/opener/terminal.rs, src/opener/shell.rs *)
(* and src/hooks.rs.  A command template is a sequence of tokens: " " and    *)
(* "." are tokens, a word is a maximal run of other characters.              *)

\* The first position at which pat occurs in s, 0 when it does not.
find_str(s, pat) ==
    IF \E k \in 1..(Len(s) - Len(pat) + 1) : SubSeq(s, k, k + Len(pat) - 1) = pat
    THEN CHOOSE k \in 1..(Len(s) - Len(pat) + 1) :
           /\ SubSeq(s, k, k + Len(pat) - 1) = pat
           /\ \A j \in 1..(k - 1) : SubSeq(s, j, j + Len(pat) - 1) # pat
    ELSE 0

\* str::contains
contains(s, pat) == find_str(s, pat) # 0

\* str::ends_with
ends_with(s, pat) ==
    Len(s) >= Len(pat) /\ SubSeq(s, Len(s) - Len(pat) + 1, Len(s)) = pat

\* The text s with the occurrence of pat at position k replaced, s for k = 0.
replace_at(s, k, pat, to) ==
    IF k = 0 THEN s
    ELSE SubSeq(s, 1, k - 1) \o to \o SubSeq(s, k + Len(pat), Len(s))

\* str::replacen(pat, to, 1): the first occurrence is replaced.
replacen(s, pat, to) == replace_at(s, find_str(s, pat), pat, to)

\* u8::to_ascii_lowercase on the words that have upper-case letters.
lower(w) ==
    CASE w = "iTerm" -> "iterm"
      [] w = "Warp" -> "warp"
      [] w = "Ghostty" -> "ghostty"
      [] w = "Terminal" -> "terminal"
      [] OTHER -> w

to_ascii_lowercase(s) == [k \in DOMAIN s |-> lower(s[k])]

\* Path::to_str of a workspace path without blank or dot: one word.
to_str(path) == <<path>>

\* src/opener/mod.rs:54-58: the command line open_in_editor builds.
editor_cmd_str(command, path_str) ==
    IF \/ contains(command, <<" ", ".", " ">>)
       \/ ends_with(command, <<" ", ".">>)
       \/ command = <<".">>
    THEN replacen(command, <<" ", ".">>, <<" ">> \o path_str)
    ELSE command \o <<" ">> \o path_str

\* shlex_split, src/opener/shell.rs:37-59, for a text without quotes: the
\* words between blanks; cur is the word being read.
RECURSIVE shlex_words(_, _, _)
shlex_words(s, cur, parts) ==
    IF s = <<>> THEN (IF cur = "" THEN parts ELSE Append(parts, cur))
    ELSE IF Head(s) \in {" ", "\t"}
    THEN shlex_words(Tail(s), "", IF cur = "" THEN parts ELSE Append(parts, cur))
    ELSE shlex_words(Tail(s), cur \o Head(s), parts)

shlex_split(s) == shlex_words(s, "", <<>>)

\* Command::spawn can start the program: there are words and the first one
\* is not the directory ".".
CanSpawn(cmd_str) == shlex_split(cmd_str) # <<>> /\ shlex_split(cmd_str)[1] # "."

\* src/opener/terminal.rs:36-84: the terminal the lower-cased command is
\* recognised as, None for an IDE or an unknown command.
terminal_of(cmd_lower) ==
    IF \E k \in DOMAIN cmd_lower : cmd_lower[k] \in {"iterm", "iterm2"} THEN "iterm"
    ELSE IF contains(cmd_lower, <<"open", " ", "-a", " ", "terminal">>) THEN "terminal"
    ELSE IF cmd_lower # <<>> /\ cmd_lower[1] = "alacritty" THEN "alacritty"
    ELSE IF cmd_lower # <<>> /\ cmd_lower[1] = "kitty" THEN "kitty"
    ELSE IF cmd_lower # <<>> /\ cmd_lower[1] = "wezterm" THEN "wezterm"
    ELSE None

\* try_terminal_with_init returns true for this command.
IsTerminal(command) == terminal_of(to_ascii_lowercase(command)) # None

OpenA(app) == <<"open", " ", "-a", " ", app, " ", ".">>

\* src/opener/mod.rs:19-24: the applications probed in order.
AutoTerminals ==
    <<[app |-> "iTerm", cmd |-> OpenA("iTerm")],
      [app |-> "Warp", cmd |-> OpenA("Warp")],
      [app |-> "Ghostty", cmd |-> OpenA("Ghostty")],
      [app |-> "Terminal", cmd |-> OpenA("Terminal")]>>

\* What `terminal` resolves to on each target_os (editor.rs:23-31).
terminal_command(target_os) ==
    CASE target_os = "macos" -> OpenA("Terminal")
      [] target_os = "windows" -> <<"wt", " ", "-d", " ", ".">>
      [] OTHER -> <<"xterm">>

\* resolve_editor_command, src/commands/open/editor.rs:1-35; name is compared
\* without regard to case.
resolve_editor_command(name, target_os) ==
    CASE lower(name) = "cursor" -> <<"cursor", " ", ".">>
      [] lower(name) = "code" -> <<"code", " ", ".">>
      [] lower(name) = "zed" -> <<"zed", " ", ".">>
      [] lower(name) = "subl" -> <<"subl", " ", ".">>
      [] lower(name) = "nvim" -> <<"nvim", " ", ".">>
      [] lower(name) = "vim" -> <<"vim", " ", ".">>
      [] lower(name) \in {"iterm", "iterm2"} -> OpenA("iTerm")
      [] lower(name) = "warp" -> OpenA("Warp")
      [] lower(name) = "ghostty" -> OpenA("Ghostty")
      [] lower(name) = "alacritty" -> <<"alacritty", " ", "--working-directory", " ", ".">>
      [] lower(name) = "kitty" -> <<"kitty", " ", "--directory", " ", ".">>
      [] lower(name) = "wezterm" -> <<"wezterm", " ", "start", " ", "--cwd", " ", ".">>
      [] lower(name) \in {"wt", "windowsterminal"} -> <<"wt", " ", "-d", " ", ".">>
      [] lower(name) = "terminal" -> terminal_command(target_os)
      [] OTHER -> <<name>>

-----------------------------------------------------------------------------
(* cmd_open, src/commands/open/mod.rs:12-65 *)

\* An executed step of the run: a hook handed to run_hook (ran tells whether
\* sh was started) or to a terminal window, an editor started with a command
\* line, the path printed.
HookEvent(name, by, ran) == [kind |-> "hook", name |-> name, by |-> by, ran |-> ran, line |-> <<>>]

EditorEvent(cmd_str) ==
    [kind |-> "editor", name |-> "", by |-> "open_in_editor", ran |-> TRUE, line |-> cmd_str]

PrintEvent(path) == [kind |-> "print", name |-> "", by |-> "println", ran |-> TRUE, line |-> <<path>>]

\* Finishing the run with a result.
Finish(r) ==
    /\ cmd_pc' = "done"
    /\ cmd' = [cmd EXCEPT !.result = r]

\* Line 13: parse_with_options(issue_ref)?
CmdParse ==
    /\ cmd_pc = "parse"
    /\ with_options' = parse_with_options(input)
    /\ IF with_options'.ok
       THEN cmd_pc' = "workspace" /\ UNCHANGED cmd
       ELSE Finish(CmdErr(with_options'.err))
    /\ UNCHANGED <<input, parsed, events>>
    /\ UNCHANGED <<lifecycle_vars, path_vars>>

\* Lines 14-25: Workspace::open_or_create(issue)?, whose steps are the actions
\* of open_or_create above; here the call is one step with any of its three
\* results.  With print_path the path is printed and the run ends.
CmdWorkspace ==
    /\ cmd_pc = "workspace"
    /\ \E outcome \in {"err", "created", "reused"} :
         IF outcome = "err"
         THEN /\ Finish(CmdErr("open_or_create failed"))
              /\ UNCHANGED events
         ELSE IF cmd.print_path
         THEN /\ cmd_pc' = "done"
              /\ cmd' = [cmd EXCEPT !.created = (outcome = "created"),
                                    !.path = temp_path(with_options.issue),
                                    !.result = CmdOk]
              /\ events' = Append(events, PrintEvent(temp_path(with_options.issue)))
         ELSE /\ cmd_pc' = "config"
              /\ cmd' = [cmd EXCEPT !.created = (outcome = "created"),
                                    !.path = temp_path(with_options.issue)]
              /\ UNCHANGED events
    /\ UNCHANGED <<lifecycle_vars, parser_vars, path_vars>>

\* Command templates of the configuration file.
Templates ==
    {<<"code", " ", ".">>,
     <<".">>,
     <<"code">>,
     <<"nvim", " ", "-u", " ", ".", "vimrc", " ", ".">>,
     <<"code", " ", ".", " ", "--wait">>,
     OpenA("Terminal"),
     <<"kitty", " ", "--directory", " ", ".">>}

\* Values of editor.command: not set, or a template.
ConfigCommands == {<<>>} \cup {<<t>> : t \in Templates}

\* The configurations Config::load can return.
Configs ==
    [pre_open : {None, "pre"}, post_open : {None, "post"},
     command : ConfigCommands, editor : BOOLEAN]

\* Line 27: Config::load()?
CmdLoadConfig ==
    /\ cmd_pc = "config"
    /\ \/ /\ Finish(CmdErr("Failed to parse config"))
       \/ \E c \in Configs :
            /\ cmd_pc' = "pre_open"
            /\ cmd' = [cmd EXCEPT !.config = c]
    /\ UNCHANGED events
    /\ UNCHANGED <<lifecycle_vars, parser_vars, path_vars>>

\* Lines 35-44: the editor command of this run.
editor_cmd ==
    IF with_options.editor # None
    THEN <<resolve_editor_command(with_options.editor, cmd.target_os)>>
    ELSE IF cmd.force_editor \/ cmd.config.editor THEN cmd.config.command
    ELSE <<>>

\* Lines 46-62: where the match on (editor_cmd, post_open) goes first.
first_step(command, post_open) ==
    IF command # <<>> /\ post_open # None THEN "terminal"
    ELSE IF command # <<>> THEN "editor"
    ELSE IF post_open # None THEN "post_open"
    ELSE "done"

\* What run_hook can do (src/hooks.rs:28-57): fail to write the script (an
\* error), fail to start sh or see it exit with a failure (a warning), or run
\* the script to a zero exit.
RunHookOutcomes == {"io_err", "spawn_err", "exit_fail", "ok"}

HookRan(outcome) == outcome \in {"exit_fail", "ok"}

\* The run goes on after the pre:open hook with the events ev.
AfterPreOpen(ev) ==
    /\ events' = ev
    /\ cmd_pc' = first_step(editor_cmd, cmd.config.post_open)
    /\ cmd' = [cmd EXCEPT !.editor_cmd = editor_cmd,
                          !.result = IF first_step(editor_cmd, cmd.config.post_open) = "done"
                                     THEN CmdOk ELSE @]

\* Lines 30-46: the pre:open hook, then the choice of the editor command.
CmdPreOpen ==
    /\ cmd_pc = "pre_open"
    /\ IF cmd.config.pre_open = None
       THEN AfterPreOpen(events)
       ELSE \E outcome \in RunHookOutcomes :
              IF outcome = "io_err"
              THEN Finish(CmdErr("run_hook failed")) /\ UNCHANGED events
              ELSE AfterPreOpen(Append(events,
                                       HookEvent("pre:open", "run_hook", HookRan(outcome))))
    /\ UNCHANGED <<lifecycle_vars, parser_vars, path_vars>>

\* What try_terminal_with_init can do for a command: fail to write the
\* bootstrap script, fail to start the terminal it recognised, or return
\* whether it recognised one.
TerminalOutcomes(command) ==
    {"write_err", "returned"} \cup (IF IsTerminal(command) THEN {"spawn_err"} ELSE {})

\* Mutant: after the hook was handed to a terminal window the caller is told
\* that it was not.
HookInTerminal_m ==
    /\ events' = Append(events, HookEvent("post:open", "terminal", TRUE))
    /\ cmd_pc' = "post_open"
    /\ UNCHANGED cmd

\* The hook was handed to a terminal window: open_with_hook returns true and
\* the run ends.
HookInTerminal ==
    /\ events' = Append(events, HookEvent("post:open", "terminal", TRUE))
    /\ Finish(CmdOk)

\* open_with_hook, src/opener/mod.rs:37-40: try_terminal_with_init on the
\* editor command.
OpenWithHook ==
    /\ cmd_pc = "terminal"
    /\ \E outcome \in TerminalOutcomes(cmd.editor_cmd[1]) :
         IF outcome # "returned"
         THEN Finish(CmdErr("try_terminal_with_init failed")) /\ UNCHANGED events
         ELSE IF IsTerminal(cmd.editor_cmd[1])
         THEN HookInTerminal
         ELSE /\ cmd_pc' = "editor"
              /\ UNCHANGED <<cmd, events>>
    /\ UNCHANGED <<lifecycle_vars, parser_vars, path_vars>>

\* The command line open_in_editor builds in this run.
CmdStr == editor_cmd_str(cmd.editor_cmd[1], to_str(cmd.path))

\* After open_in_editor: the auto terminal of open_with_hook when there is a
\* post:open hook, the end of the run otherwise.
after_editor(post_open) == IF post_open # None THEN "auto" ELSE "done"

\* open_in_editor, src/opener/mod.rs:49-62, called from open_with_hook
\* (line 42) or from cmd_open (line 55).
OpenInEditor ==
    /\ cmd_pc = "editor"
    /\ \E outcome \in {"err", "ok"} :
         IF outcome = "err"
         THEN /\ cmd_pc' = "done"
              /\ cmd' = [cmd EXCEPT !.cmd_str = <<CmdStr>>,
                                    !.result = CmdErr("Failed to open editor")]
              /\ UNCHANGED events
         ELSE /\ CanSpawn(CmdStr)
              /\ cmd_pc' = after_editor(cmd.config.post_open)
              /\ cmd' = [cmd EXCEPT !.cmd_str = <<CmdStr>>,
                                    !.result = IF cmd.config.post_open = None THEN CmdOk ELSE @]
              /\ events' = Append(events, EditorEvent(CmdStr))
    /\ UNCHANGED <<lifecycle_vars, parser_vars, path_vars>>

\* The loop goes on with the next application, or ends with Ok(false): the
\* caller runs the hook itself.
NextCandidate ==
    /\ cmd_pc' = IF cmd.cand = Len(AutoTerminals) THEN "post_open" ELSE "auto"
    /\ cmd' = [cmd EXCEPT !.cand = IF cmd.cand = Len(AutoTerminals) THEN @ ELSE @ + 1]
    /\ UNCHANGED events

\* open_hook_in_auto_terminal, src/opener/mod.rs:18-31: one round of the loop.
AutoTerminal ==
    /\ cmd_pc = "auto"
    /\ \E app_exists \in BOOLEAN :
         IF ~app_exists
         THEN NextCandidate
         ELSE \E outcome \in TerminalOutcomes(AutoTerminals[cmd.cand].cmd) :
                IF outcome # "returned"
                THEN Finish(CmdErr("try_terminal_with_init failed")) /\ UNCHANGED events
                ELSE IF IsTerminal(AutoTerminals[cmd.cand].cmd)
                THEN HookInTerminal
                ELSE NextCandidate
    /\ UNCHANGED <<lifecycle_vars, parser_vars, path_vars>>

\* Lines 50-52 and 58-59: run_hook on the post:open script.
PostOpen ==
    /\ cmd_pc = "post_open"
    /\ \E outcome \in RunHookOutcomes :
         IF outcome = "io_err"
         THEN Finish(CmdErr("run_hook failed")) /\ UNCHANGED events
         ELSE /\ events' = Append(events,
                                  HookEvent("post:open", "run_hook", HookRan(outcome)))
              /\ Finish(CmdOk)
    /\ UNCHANGED <<lifecycle_vars, parser_vars, path_vars>>

\* Values of the editor parameter of a deep link.
EditorNames == {"code", "iTerm", "warp", "terminal", "alacritty", "hx"}

\* The texts handed to cmd_open.
OpenInputs ==
    {<<"acme", "/", "api", "#", "7">>, <<"acme">>}
    \cup {DeepLinkHead \o joined(<<Param("owner", <<"acme">>), Param("repo", <<"api">>),
                                   Param("issue", <<"7">>), Param("editor", <<e>>)>>, "&") :
            e \in EditorNames}

OpenInit ==
    /\ LifecycleIdle
    /\ PathIdle
    /\ input \in OpenInputs
    /\ parsed = NotParsed
    /\ with_options = NotParsed
    /\ \E force_editor \in BOOLEAN, print_path \in BOOLEAN,
          target_os \in {"macos", "windows", "linux"} :
         cmd = [IdleCmd EXCEPT !.force_editor = force_editor,
                               !.print_path = print_path,
                               !.target_os = target_os]
    /\ cmd_pc = "parse"
    /\ events = <<>>

OpenNext ==
    \/ CmdParse
    \/ CmdWorkspace
    \/ CmdLoadConfig
    \/ CmdPreOpen
    \/ OpenWithHook
    \/ OpenInEditor
    \/ AutoTerminal
    \/ PostOpen

OpenSpec == OpenInit /\ [][OpenNext]_vars

-----------------------------------------------------------------------------
(* Properties of cmd_open and the opener *)

\* A run without print_path has returned Ok.
Opened == cmd_pc = "done" /\ cmd.result.ok /\ ~cmd.print_path

\* The positions of the events at which the hook was handed to a shell.
Handed(name) == {k \in DOMAIN events : events[k].kind = "hook" /\ events[k].name = name}

\* The positions of the events at which the script of the hook was run.
Executed(name) == {k \in Handed(name) : events[k].ran}

\* The positions at which an editor or a terminal window was opened.
Openings ==
    {k \in DOMAIN events : events[k].kind = "editor" \/ events[k].by = "terminal"}

\* C28 as stated: in every cmd_open run without print_path that returns Ok
\* with a post:open hook configured, the hook is executed exactly once, in
\* the terminal window or by the run_hook fallback, never both and never
\* neither; and a configured pre:open hook runs before any editor or terminal
\* is opened.
C28_PostOpenExecutedOnce ==
    /\ (Opened /\ cmd.config.post_open # None) => Cardinality(Executed("post:open")) = 1
    /\ cmd.config.pre_open # None
          => \A k \in Openings : \E j \in Executed("pre:open") : j < k

\* C28, amended: in every such run the post:open hook is handed to a shell
\* exactly once, to the terminal window (the run then ends) or to run_hook,
\* never both and never neither, and its script runs at most once; a
\* configured pre:open hook is handed to run_hook before any editor or
\* terminal is opened.  run_hook only warns when sh cannot be started, so
\* the script of a hook handed to run_hook may not have run.
C28_PostOpenHandedOnce ==
    /\ (Opened /\ cmd.config.post_open # None)
          => /\ Cardinality(Handed("post:open")) = 1
             /\ Cardinality(Executed("post:open")) <= 1
             /\ \A k \in Handed("post:open") :
                   events[k].by = "run_hook" \/ events[k].ran
    /\ cmd.config.pre_open # None
          => \A k \in Openings : \E j \in Handed("pre:open") : j < k

C28_Witness ==
    /\ Opened
    /\ cmd.config.post_open # None
    /\ cmd.config.pre_open # None
    /\ Len(events) = 3
    /\ events[1] = HookEvent("pre:open", "run_hook", TRUE)
    /\ events[2].kind = "editor"
    /\ events[3] = HookEvent("post:open", "run_hook", TRUE)

\* The "." of the template at position k stands alone: it is the whole
\* template, or it follows a blank and ends the template or precedes a blank.
Standalone(s, k) ==
    /\ s[k] = "."
    /\ \/ Len(s) = 1
       \/ k > 1 /\ s[k - 1] = " " /\ (k = Len(s) \/ s[k + 1] = " ")

\* The template with its first standalone "." replaced by the path, or with
\* the path appended when it has none.
PathForDot(s, path_str) ==
    IF \E k \in DOMAIN s : Standalone(s, k)
    THEN replace_at(s,
                    CHOOSE k \in DOMAIN s :
                        Standalone(s, k) /\ \A j \in 1..(k - 1) : ~Standalone(s, j),
                    <<".">>, path_str)
    ELSE s \o <<" ">> \o path_str

\* C29: for every command template and workspace path, the command line that
\* open_in_editor runs contains the path exactly once: a standalone "." of
\* the template is replaced by the path and nothing else is altered,
\* otherwise the path is appended as the last argument.
C29_PathReplacesDot ==
    cmd.cmd_str # <<>>
        => /\ cmd.cmd_str[1] = PathForDot(cmd.editor_cmd[1], to_str(cmd.path))
           /\ Cardinality({k \in DOMAIN cmd.cmd_str[1] : cmd.cmd_str[1][k] = cmd.path}) = 1

-----------------------------------------------------------------------------
(* Two concurrent invocations of open_or_create: each process calls once,   *)
(* the steps of the two calls interleave freely, and each caller keeps its  *)
(* result.                                                                  *)

\* The identity both callers ask for.
ConcId == GitHub("acme", "widgets", 1)

ConcCall(p) ==
    /\ OpenOrCreate(p, ConcId)
    /\ UNCHANGED <<parser_vars, path_vars, open_vars>>

ConcNext ==
    \E p \in Procs :
        \/ ConcCall(p)
        \/ EnsureBare(p)
        \/ BareCloneClone(p)
        \/ BareCloneConfig(p)
        \/ BareCloneFetch(p)
        \/ GitFetch(p)
        \/ SymbolicRef(p)
        \/ RemoteShow(p)
        \/ ProbeCandidate(p)
        \/ BranchExistsRemote(p)
        \/ CreateWorktree(p)

ConcSpec == Init /\ [][ConcNext]_vars

Created(p) == Done(p) /\ call[p].result.ok /\ call[p].result.created

====
